---- MODULE Spec2Model ----
(***************************************************************************)
(* Multi-source extraction and aggregation pipeline of AgentPaul.          *)
(*                                                                         *)
(*   Spec        aggregateSocialData (scraper/social-aggregator.ts): the    *)
(*               fan-out over the source extractors, Promise.allSettled,   *)
(*               the merge loop and the roll-up statistics.                *)
(*   SpecExtract one call of a source extractor (scrapeTikTok,             *)
(*               scrapeInstagram, scrapeWebsite, scrapeYouTube,            *)
(*               scrapeRestaurant), step by step, against a page and an    *)
(*               environment that may fail at every awaited call.          *)
(***************************************************************************)
EXTENDS Integers, Sequences, FiniteSets, TLC

\* ------------------------------------------------------------------ bounds
\* Largest follower / subscriber / content count a source reports.
MaxCount == 2
\* Largest engagement rate, in hundredths of a percent (the code rounds the
\* rate to two decimals, so hundredths are exact).
MaxRate == 1

VARIABLES
    \* ---- aggregateSocialData
    req,          \* the ScrapeRequest
    aggPc,        \* "start" | "awaiting" (at await Promise.allSettled) | "done"
    promises,     \* the platforms pushed to `promises`, in push order
    extraction,   \* per platform: the promise returned by its scrapeX call
    wrapped,      \* per platform: the promise after .then(...).catch(...)
    aggOutcome,   \* "pending" | "resolved" | "rejected": the promise of the call
    result,       \* the SocialAggregateResult once resolved, else Null
    \* ---- one call of a source extractor
    ex,           \* the extractor called: "tiktok" | "instagram" | "website" | "youtube" | "restaurant"
    handle,       \* its handle / name argument
    env,          \* what the call finds: the rendered page or the API's answers
    epc,          \* position of the call: the awaited step it is about to take
    browser,      \* "none" | "open" | "closed": the puppeteer browser of the call
    fetches,      \* page.goto / axios.get requests issued so far
    attempted,    \* the extraction strategies attempted so far, in order
    failedAt,     \* the step whose failure reached the catch block, or "none"
    loc,          \* the locals that outlive a step
    pendingRet,   \* the value of the `return` the finally block still holds back
    eret,         \* how the call settled: pending, returned (with value) or threw
    \* ---- one call of analyzeAndRankPhotos or of findBestHeroPhoto
    caller,       \* "rank": analyzeAndRankPhotos called directly; "hero": through findBestHeroPhoto
    urls,         \* the URL list passed in
    response,     \* per URL: what fetching and analysing it gives
    maxToAnalyze, \* the second argument of analyzeAndRankPhotos
    rpc,          \* position of the call: "call" | "loop" | "await" | "ranked" | "done" | "off"
    batchStart,   \* the loop variable i (0-based index of the batch's first URL)
    batchResults, \* per position of the current batch: "pending", or what analyzePhoto resolved to
    settleOrder,  \* the positions of the current batch in the order their analyses settled
    photoResults, \* the array `results` of analyzeAndRankPhotos
    ranked,       \* the RankedPhotos returned, else Null
    heroUrl,      \* what findBestHeroPhoto returned: [st, val]
    inFlight,     \* the URLs (by position) whose analyzePhoto call has started and not settled
    fetched,      \* the URLs (by position) whose analyzePhoto call was ever started
    \* ---- one call of parseCount
    countStr,     \* its argument, a sequence of characters
    countRet,     \* how the call settled and the number returned
    \* ---- one call of scrapeReviews
    reviewContainers, \* the review containers of the page, in document order
    limit,        \* its limit argument
    reviewsRet,   \* how the call settled and the reviews returned
    \* ---- one call of generateSlug, and one more on its result
    slugName,     \* its argument, a sequence of characters
    slugRet,      \* generateSlug(slugName) once called
    slugBack,     \* generateSlug of that result once called again
    \* ---- steps 3 and 4 of scrapeRestaurant
    mapsPhotos,   \* mapsData.photos, the candidate URLs
    vision,       \* per URL: what fetching and analysing it gives
    blankUrl,     \* the URL whose analysis has an empty description, or 0
    failedDownloads, \* the URLs whose download or conversion fails
    stepsOk,      \* whether analyzeAndRankPhotos resolves, whether mkdir succeeds
    ppc,          \* position: "analyze" | "download" | "done" | "off"
    rankedPhotos, \* the local rankedPhotos
    photos,       \* the local photos: the list returned in the record
    \* ---- calls of handleAction on one page
    currentData,  \* the caller's PageData object; menuHighlights is an array reference
    arrays,       \* the heap of arrays: its arrays by reference
    lastAction,   \* the action of the last call
    hret,         \* the ActionResult of the last call
    disk,         \* data.json: the data last written by savePageData, and the writes of the last call
    \* ---- the Telegram bot, one user
    session,      \* the user's entry of the `sessions` map, Null when there is none
    gens          \* the handleGeneration calls started so far, each with its position

aggVars == <<req, aggPc, promises, extraction, wrapped, aggOutcome, result>>
exVars == <<ex, handle, env, epc, browser, fetches, attempted, failedAt, loc,
            pendingRet, eret>>
rankVars == <<caller, urls, response, maxToAnalyze, rpc, batchStart, batchResults,
              settleOrder, photoResults, ranked, heroUrl, inFlight, fetched>>
parseVars == <<countStr, countRet>>
reviewVars == <<reviewContainers, limit, reviewsRet>>
slugVars == <<slugName, slugRet, slugBack>>
photoVars == <<mapsPhotos, vision, blankUrl, failedDownloads, stepsOk, ppc,
               rankedPhotos, photos>>
handlerVars == <<currentData, arrays, lastAction, hret, disk>>
botVars == <<session, gens>>
vars == <<aggVars, exVars, rankVars, parseVars, reviewVars, slugVars, photoVars,
          handlerVars, botVars>>
\* What the steps of one subsystem leave alone
outsideAgg == <<exVars, rankVars, parseVars, reviewVars, slugVars, photoVars,
                handlerVars, botVars>>
outsideEx == <<aggVars, rankVars, parseVars, reviewVars, slugVars, photoVars,
               handlerVars, botVars>>
outsideRank == <<aggVars, exVars, parseVars, reviewVars, slugVars, photoVars,
                 handlerVars, botVars>>
outsideParse == <<aggVars, exVars, rankVars, reviewVars, slugVars, photoVars,
                  handlerVars, botVars>>
outsideReview == <<aggVars, exVars, rankVars, parseVars, slugVars, photoVars,
                   handlerVars, botVars>>
outsideSlug == <<aggVars, exVars, rankVars, parseVars, reviewVars, photoVars,
                 handlerVars, botVars>>
outsidePhoto == <<aggVars, exVars, rankVars, parseVars, reviewVars, slugVars,
                  handlerVars, botVars>>
outsideHandler == <<aggVars, exVars, rankVars, parseVars, reviewVars, slugVars,
                    photoVars, botVars>>
outsideBot == <<aggVars, exVars, rankVars, parseVars, reviewVars, slugVars,
                photoVars, handlerVars>>

\* ------------------------------------------------------------- JS values
\* null (also standing for "no value yet")
Null == [isNull |-> TRUE]
\* JS truthiness of an object-or-null value
Truthy(d) == d # Null

\* A handle as the caller passes it: absent/empty (falsy) or present.
Handle == {"", "h"}

Platform == {"google_maps", "instagram", "tiktok", "youtube", "website"}
\* The order of the five `if (req.x) promises.push(...)` blocks.
PushOrder == <<"google_maps", "instagram", "tiktok", "youtube", "website">>

ScrapeRequest ==
    [gmapsQuery : Handle, instagram : Handle, tiktok : Handle,
     youtube : Handle, website : Handle]

\* req.<field> of the platform
ReqHandle(r, p) ==
    CASE p = "google_maps" -> r.gmapsQuery
      [] p = "instagram"   -> r.instagram
      [] p = "tiktok"      -> r.tiktok
      [] p = "youtube"     -> r.youtube
      [] p = "website"     -> r.website

\* ----------------------------------------------- what the extractors return
\* handle.replace('@', '').trim()
CleanHandle(h) == IF h = "@h" THEN "h" ELSE h

\* scrapeWebsite: url = websiteUrl.trim(); if (!url.startsWith('http')) url = `https://${url}`
NormalizeUrl(h) == IF h = "" THEN "https://" ELSE "https://h"

\* The record each extractor returns from its catch block (or, for YouTube,
\* emptyYouTubeData): every number 0, built from the handle.
InstagramBaseline(h) ==
    [username |-> CleanHandle(h), fullName |-> CleanHandle(h),
     followers |-> 0, postsCount |-> 0, engagementRate |-> 0, recentPosts |-> <<>>]
TikTokBaseline(h) ==
    [username |-> CleanHandle(h), nickname |-> CleanHandle(h),
     followers |-> 0, videoCount |-> 0, recentVideos |-> <<>>]
YouTubeBaseline(h) ==
    [channelId |-> "", channelName |-> CleanHandle(h),
     subscribers |-> 0, videoCount |-> 0, recentVideos |-> <<>>]
WebsiteBaseline(h) ==
    [url |-> NormalizeUrl(h), title |-> ""]

\* The records a successful extraction can return, as far as the aggregator
\* reads them (an item of recentPosts / recentVideos stands for its position
\* in the source's list).
\* Instagram's engagementRate is positive only with followers > 0 and a
\* recent post (instagram.ts lines 126-129).
InstagramRecords(h) ==
    { r \in [username : {CleanHandle(h)}, fullName : {"Name"},
             followers : 0..MaxCount, postsCount : 0..MaxCount,
             engagementRate : 0..MaxRate, recentPosts : {<<>>, <<1>>}] :
        /\ r.engagementRate > 0 => r.followers > 0
        /\ Len(r.recentPosts) > 0 <=> r.engagementRate > 0 }
TikTokRecords(h) ==
    [username : {CleanHandle(h)}, nickname : {"Name"},
     followers : 0..MaxCount, videoCount : 0..MaxCount, recentVideos : {<<>>}]
YouTubeRecords(h) ==
    [channelId : {"UC"}, channelName : {"Name"},
     subscribers : 0..MaxCount, videoCount : 0..MaxCount, recentVideos : {<<>>}]
WebsiteRecords(h) ==
    [url : {NormalizeUrl(h)}, title : {"Title"}]
RestaurantRecords(h) ==
    [name : {"Name"}, slug : {"name"}, reviewCount : 0..MaxCount]

\* How a call of the platform's extractor can settle, as seen by the
\* aggregator: kind "throw" (the returned promise rejects), "baseline" (the
\* extractor caught its failure and returned its empty record) or "data".
\*   scrapeRestaurant rethrows when scrapeGoogleMaps fails and has no baseline;
\*   scrapeInstagram/TikTok/Website reject when browser.close() in `finally`
\*   fails; scrapeYouTube catches everything.
Thrown == [kind |-> "throw", val |-> Null]
Outcomes(p, h) ==
    CASE p = "google_maps" ->
           {Thrown} \cup [kind : {"data"}, val : RestaurantRecords(h)]
      [] p = "instagram" ->
           {Thrown, [kind |-> "baseline", val |-> InstagramBaseline(h)]}
           \cup [kind : {"data"}, val : InstagramRecords(h)]
      [] p = "tiktok" ->
           {Thrown, [kind |-> "baseline", val |-> TikTokBaseline(h)]}
           \cup [kind : {"data"}, val : TikTokRecords(h)]
      [] p = "youtube" ->
           {[kind |-> "baseline", val |-> YouTubeBaseline(h)]}
           \cup [kind : {"data"}, val : YouTubeRecords(h)]
      [] p = "website" ->
           {Thrown, [kind |-> "baseline", val |-> WebsiteBaseline(h)]}
           \cup [kind : {"data"}, val : WebsiteRecords(h)]

\* ------------------------------------------------------ aggregateSocialData
Idle == [st |-> "idle", kind |-> "none", val |-> Null]
Pending == [st |-> "pending", kind |-> "none", val |-> Null]
NoPromise == [st |-> "none", value |-> Null]
PendingWrap == [st |-> "pending", value |-> Null]

\* .then(data => ({ platform, data }))
ThenHandler(p, data) ==
    [st |-> "fulfilled", value |-> [platform |-> p, data |-> data]]
\* .catch(err => { console.warn(...); return { platform, data: null }; })
CatchHandler(p) ==
    [st |-> "fulfilled", value |-> [platform |-> p, data |-> Null]]

\* Every extractor launched whatever the request names.
RequestedAlways(r, p) == TRUE

\* `if (req.x)`: a source is launched when its handle is truthy
Requested(r, p) == ReqHandle(r, p) # ""

RECURSIVE SelectPushed(_, _)
SelectPushed(r, i) ==
    IF i > Len(PushOrder) THEN <<>>
    ELSE (IF Requested(r, PushOrder[i]) THEN <<PushOrder[i]>> ELSE <<>>)
         \o SelectPushed(r, i + 1)

InitAgg ==
    /\ req \in ScrapeRequest
    /\ aggPc = "start"
    /\ promises = <<>>
    /\ extraction = [p \in Platform |-> Idle]
    /\ wrapped = [p \in Platform |-> NoPromise]
    /\ aggOutcome = "pending"
    /\ result = Null

\* No aggregate call: the state of these variables while one extractor call
\* is followed on its own.
AggOff ==
    /\ req = [gmapsQuery |-> "", instagram |-> "", tiktok |-> "",
              youtube |-> "", website |-> ""]
    /\ aggPc = "off"
    /\ promises = <<>>
    /\ extraction = [p \in Platform |-> Idle]
    /\ wrapped = [p \in Platform |-> NoPromise]
    /\ aggOutcome = "pending"
    /\ result = Null

\* No extractor call followed step by step.
ExOff ==
    /\ ex = "none"
    /\ handle = ""
    /\ env = Null
    /\ epc = "off"
    /\ browser = "none"
    /\ fetches = 0
    /\ attempted = <<>>
    /\ failedAt = "none"
    /\ loc = Null
    /\ pendingRet = Null
    /\ eret = [st |-> "pending", val |-> Null]

\* No photo ranking followed step by step.
RankOff ==
    /\ caller = "none"
    /\ urls = <<>>
    /\ response = <<>>
    /\ maxToAnalyze = 0
    /\ rpc = "off"
    /\ batchStart = 0
    /\ batchResults = <<>>
    /\ settleOrder = <<>>
    /\ photoResults = <<>>
    /\ ranked = Null
    /\ heroUrl = [st |-> "pending", val |-> Null]
    /\ inFlight = {}
    /\ fetched = {}

\* No parseCount call followed.
ParseOff ==
    /\ countStr = <<>>
    /\ countRet = [st |-> "off"]

\* No scrapeReviews call followed.
ReviewOff ==
    /\ reviewContainers = <<>>
    /\ limit = 0
    /\ reviewsRet = [st |-> "off"]

\* No generateSlug call followed.
SlugOff ==
    /\ slugName = <<>>
    /\ slugRet = [st |-> "off"]
    /\ slugBack = [st |-> "off"]

\* The photo steps of scrapeRestaurant not followed.
PhotoOff ==
    /\ mapsPhotos = <<>>
    /\ vision = <<>>
    /\ blankUrl = 0
    /\ failedDownloads = {}
    /\ stepsOk = [analyze |-> TRUE, mkdir |-> TRUE]
    /\ ppc = "off"
    /\ rankedPhotos = Null
    /\ photos = <<>>

\* No handleAction call followed.
HandlerOff ==
    /\ currentData = Null
    /\ arrays = <<>>
    /\ lastAction = Null
    /\ hret = [st |-> "off"]
    /\ disk = Null

\* No update reached the bot.
BotOff ==
    /\ session = Null
    /\ gens = <<>>

\* The calls followed on their own, all off
FunctionsOff == ParseOff /\ ReviewOff /\ SlugOff /\ PhotoOff /\ HandlerOff /\ BotOff

\* Lines 44-103: every requested extractor is called (each runs to its first
\* await) and its promise wrapped and pushed; the function then suspends at
\* `await Promise.allSettled(promises)`.
Launch ==
    /\ aggPc = "start"
    /\ promises' = SelectPushed(req, 1)
    /\ extraction' = [p \in Platform |-> IF Requested(req, p) THEN Pending ELSE Idle]
    /\ wrapped' = [p \in Platform |-> IF Requested(req, p) THEN PendingWrap ELSE NoPromise]
    /\ aggPc' = "awaiting"
    /\ UNCHANGED <<req, aggOutcome, result, outsideAgg>>

\* One launched extraction settles, in any order relative to the others, and
\* its .then/.catch handler settles the wrapped promise.
Settle(p, o) ==
    /\ aggPc = "awaiting"
    /\ extraction[p].st = "pending"
    /\ extraction' = [extraction EXCEPT ![p] =
         [st |-> IF o.kind = "throw" THEN "rejected" ELSE "fulfilled",
          kind |-> o.kind, val |-> o.val]]
    /\ wrapped' = [wrapped EXCEPT ![p] =
         IF o.kind = "throw" THEN CatchHandler(p) ELSE ThenHandler(p, o.val)]
    /\ UNCHANGED <<req, aggPc, promises, aggOutcome, result, outsideAgg>>

SettleSome ==
    \E p \in Platform : \E o \in Outcomes(p, ReqHandle(req, p)) : Settle(p, o)

\* Promise.allSettled(promises) fulfils once no pushed promise is pending.
AnySettledReady ==
    \/ Len(promises) = 0
    \/ \E i \in 1..Len(promises) : wrapped[promises[i]].st # "pending"
AllSettledReady ==
    \A i \in 1..Len(promises) : wrapped[promises[i]].st # "pending"

\* The array Promise.allSettled resolves to, in `promises` order.
SettledResults ==
    [i \in 1..Len(promises) |->
        [status |-> IF wrapped[promises[i]].st = "fulfilled" THEN "fulfilled" ELSE "rejected",
         value |-> wrapped[promises[i]].value]]

NoFields == [p \in Platform |-> Null]

\* Lines 112-122: for (const result of results) if fulfilled && value.data, switch
RECURSIVE MergeLoopFailFast(_, _, _)
MergeLoopFailFast(results, i, fields) ==
    IF i > Len(results) THEN fields
    ELSE LET r == results[i]
         IN IF r.status = "fulfilled" /\ Truthy(r.value) /\ Truthy(r.value.data)
            THEN MergeLoopFailFast(results, i + 1,
                                   [fields EXCEPT ![r.value.platform] = r.value.data])
            ELSE NoFields
RECURSIVE MergeLoop(_, _, _)
MergeLoop(results, i, fields) ==
    IF i > Len(results) THEN fields
    ELSE LET r == results[i]
         IN IF r.status = "fulfilled" /\ Truthy(r.value) /\ Truthy(r.value.data)
               /\ r.value.platform \in Platform
            THEN MergeLoop(results, i + 1,
                           [fields EXCEPT ![r.value.platform] = r.value.data])
            ELSE MergeLoop(results, i + 1, fields)

\* The conditions of the five `if` blocks of lines 130-155.  A condition is
\* "true", "false" or "TypeError" (reading a property of null throws).
InstagramActiveUnguarded(ig) ==
    IF ~Truthy(ig) THEN "TypeError" ELSE IF ig.followers > 0 THEN "true" ELSE "false"
InstagramActive(ig) ==
    IF ~Truthy(ig) THEN "false" ELSE IF ig.followers > 0 THEN "true" ELSE "false"
TikTokActive(tt) ==
    IF ~Truthy(tt) THEN "false" ELSE IF tt.followers > 0 THEN "true" ELSE "false"
YouTubeActive(yt) ==
    IF ~Truthy(yt) THEN "false" ELSE IF yt.subscribers > 0 THEN "true" ELSE "false"
WebsiteActive(ws) ==
    IF ~Truthy(ws) THEN "false" ELSE IF ws.url # "" THEN "true" ELSE "false"
GoogleMapsActive(gm) ==
    IF Truthy(gm) THEN "true" ELSE "false"

RECURSIVE SumSeq(_)
SumSeq(s) == IF s = <<>> THEN 0 ELSE Head(s) + SumSeq(Tail(s))

\* Math.round(x) for x = n / d >= 0, d > 0
RoundDiv(n, d) == (2 * n + d) \div (2 * d)

\* The sum of the rates divided by the number of sources.
AvgOverAllSources(rates) == RoundDiv(SumSeq(rates), 5)

\* Lines 157-159 and 176: the mean of engagementRates rounded to two decimals
\* (rates are in hundredths), 0 for an empty list.
AvgEngagement(rates) ==
    IF Len(rates) > 0 THEN RoundDiv(SumSeq(rates), Len(rates)) ELSE 0

\* What each `if` block adds to totalFollowers and totalContentPieces.
InstagramFollowers(ig) == IF InstagramActive(ig) = "true" THEN ig.followers ELSE 0
InstagramContent(ig) == IF InstagramActive(ig) = "true" THEN ig.postsCount ELSE 0
TikTokFollowers(tt) == IF TikTokActive(tt) = "true" THEN tt.followers ELSE 0
TikTokContentUnguarded(tt) == IF Truthy(tt) THEN tt.videoCount ELSE 0
TikTokContent(tt) == IF TikTokActive(tt) = "true" THEN tt.videoCount ELSE 0
YouTubeFollowers(yt) == IF YouTubeActive(yt) = "true" THEN yt.subscribers ELSE 0
YouTubeContent(yt) == IF YouTubeActive(yt) = "true" THEN yt.videoCount ELSE 0
\* Line 134: if (instagram.engagementRate > 0) engagementRates.push(...)
EngagementRates(ig) ==
    IF InstagramActive(ig) = "true" /\ ig.engagementRate > 0
    THEN <<ig.engagementRate>> ELSE <<>>

\* activePlatforms built in the order the promises were pushed.
ActivePlatformsPushOrder(f) ==
    (IF GoogleMapsActive(f["google_maps"]) = "true" THEN <<"google_maps">> ELSE <<>>)
    \o (IF InstagramActive(f["instagram"]) = "true" THEN <<"instagram">> ELSE <<>>)
    \o (IF TikTokActive(f["tiktok"]) = "true" THEN <<"tiktok">> ELSE <<>>)
    \o (IF YouTubeActive(f["youtube"]) = "true" THEN <<"youtube">> ELSE <<>>)
    \o (IF WebsiteActive(f["website"]) = "true" THEN <<"website">> ELSE <<>>)

\* Lines 125-155: activePlatforms, in the order of the five blocks.
ActivePlatforms(f) ==
    (IF InstagramActive(f["instagram"]) = "true" THEN <<"instagram">> ELSE <<>>)
    \o (IF TikTokActive(f["tiktok"]) = "true" THEN <<"tiktok">> ELSE <<>>)
    \o (IF YouTubeActive(f["youtube"]) = "true" THEN <<"youtube">> ELSE <<>>)
    \o (IF WebsiteActive(f["website"]) = "true" THEN <<"website">> ELSE <<>>)
    \o (IF GoogleMapsActive(f["google_maps"]) = "true" THEN <<"google_maps">> ELSE <<>>)

\* Lines 124-177: the roll-ups over the merged fields; threw when one of the
\* conditions raised.
AggregateStats(f) ==
    [threw |-> "TypeError" \in
                  {InstagramActive(f["instagram"]), TikTokActive(f["tiktok"]),
                   YouTubeActive(f["youtube"]), WebsiteActive(f["website"]),
                   GoogleMapsActive(f["google_maps"])},
     activePlatforms |-> ActivePlatforms(f),
     totalFollowers |->
         InstagramFollowers(f["instagram"]) + TikTokFollowers(f["tiktok"])
         + YouTubeFollowers(f["youtube"]),
     totalContentPieces |->
         InstagramContent(f["instagram"]) + TikTokContent(f["tiktok"])
         + YouTubeContent(f["youtube"]),
     avgEngagementRate |-> AvgEngagement(EngagementRates(f["instagram"]))]

\* Lines 103-177: the await resumes and the rest of the function runs without
\* suspending: merge, roll-ups, return.
MergeAndReturn ==
    /\ aggPc = "awaiting"
    /\ AllSettledReady
    /\ LET f == MergeLoop(SettledResults, 1, NoFields)
           s == AggregateStats(f)
       IN IF s.threw
          THEN /\ aggOutcome' = "rejected"
               /\ result' = Null
          ELSE /\ aggOutcome' = "resolved"
               /\ result' = [googleMaps |-> f["google_maps"],
                             instagram |-> f["instagram"],
                             tiktok |-> f["tiktok"],
                             youtube |-> f["youtube"],
                             website |-> f["website"],
                             totalFollowers |-> s.totalFollowers,
                             activePlatforms |-> s.activePlatforms,
                             totalContentPieces |-> s.totalContentPieces,
                             avgEngagementRate |-> s.avgEngagementRate]
    /\ aggPc' = "done"
    /\ UNCHANGED <<req, promises, extraction, wrapped, outsideAgg>>

Init == InitAgg /\ ExOff /\ RankOff /\ FunctionsOff

Next ==
    \/ Launch
    \/ SettleSome
    \/ MergeAndReturn

Spec == Init /\ [][Next]_vars

\* ============================================================ the extractors
\* recentPosts / recentVideos keep at most this many items (.slice(0, 12))
RecentCap == 12
\* Largest number of content items a page embeds
MaxItems == 13

Min(a, b) == IF a < b THEN a ELSE b

\* list.slice(0, 12).map(...) over a list of n items: the first 12 in the
\* list's order, an item standing for its position in the list
RecentSlice(n) == [i \in 1..Min(n, RecentCap) |-> i]

ExHandle == {"h", "@h"}
\* An embedded data blob of a page: no script holds it (or the pattern does not
\* match), its JSON does not parse, it parses without the user entity at the
\* path the code follows, or it parses with it.
Blob == {"absent", "unparsable", "noUser", "user"}
ItemCounts == {0, 1, MaxItems}

\* What a rendered TikTok profile page can hold.
TikTokPages ==
    [primary : Blob, secondary : Blob, metaMatch : BOOLEAN,
     followers : {0, MaxCount}, videoCount : {0, 1}, items : ItemCounts]

ExPending == [st |-> "pending", val |-> Null]
ExReturned(v) == [st |-> "returned", val |-> v]
ExThrew == [st |-> "threw", val |-> Null]

\* An exception reaches the catch block of a puppeteer extractor: the block
\* builds the empty record and the function goes on to `finally`.
ToCatch(step, tried, baseline) ==
    /\ failedAt' = step
    /\ attempted' = Append(tried, "baseline")
    /\ pendingRet' = [kind |-> "baseline", val |-> baseline]
    /\ epc' = "finally"

\* `return result` inside the try: `finally` runs before the call settles.
ToReturn(tried, rec) ==
    /\ failedAt' = failedAt
    /\ attempted' = tried
    /\ pendingRet' = [kind |-> "data", val |-> rec]
    /\ epc' = "finally"

Puppeteer == {"tiktok", "instagram", "website"}

BaselineOf(e, h) ==
    CASE e = "tiktok"    -> TikTokBaseline(h)
      [] e = "instagram" -> InstagramBaseline(h)
      [] e = "website"   -> WebsiteBaseline(h)
      [] e = "youtube"   -> YouTubeBaseline(h)

\* puppeteer.launch(...) at the top of the try block
LaunchBrowser(ok) ==
    /\ ex \in Puppeteer
    /\ epc = "launch"
    /\ IF ok
       THEN /\ browser' = "open"
            /\ epc' = "setup"
            /\ UNCHANGED <<attempted, failedAt, pendingRet>>
       ELSE /\ browser' = browser
            /\ ToCatch("launch", attempted, BaselineOf(ex, handle))
    /\ UNCHANGED <<outsideEx, ex, handle, env, fetches, loc, eret>>

\* browser.newPage(), page.setUserAgent(...), page.setViewport(...)
SetupPage(ok) ==
    /\ ex \in Puppeteer
    /\ epc = "setup"
    /\ IF ok
       THEN /\ epc' = "goto"
            /\ UNCHANGED <<attempted, failedAt, pendingRet>>
       ELSE ToCatch("setup", attempted, BaselineOf(ex, handle))
    /\ UNCHANGED <<outsideEx, ex, handle, env, browser, fetches, loc, eret>>

\* `finally { if (browser) await browser.close(); }`: the held-back return
\* value is delivered unless close() itself fails.
Finally(ok) ==
    /\ ex \in Puppeteer
    /\ epc = "finally"
    /\ browser = "none" => ok
    /\ IF browser = "open" /\ ~ok
       THEN /\ eret' = ExThrew
            /\ browser' = browser
       ELSE /\ eret' = ExReturned(pendingRet.val)
            /\ browser' = IF browser = "open" THEN "closed" ELSE browser
    /\ epc' = "done"
    /\ UNCHANGED <<outsideEx, ex, handle, env, fetches, attempted, failedAt, loc,
                   pendingRet>>

\* ---------------------------------------------------------------- scrapeTikTok
\* The page function of lines 58-82: the first loop looks for the primary
\* blob and returns it as soon as it parses; only when no primary blob parsed
\* does the second loop look for the secondary blob; null when neither parsed.
EvalBlob(pg) ==
    IF pg.primary \in {"noUser", "user"}
    THEN [tried |-> <<"primary">>, blob |-> "primary"]
    ELSE IF pg.secondary \in {"noUser", "user"}
         THEN [tried |-> <<"primary", "secondary">>, blob |-> "secondary"]
         ELSE [tried |-> <<"primary", "secondary">>, blob |-> "none"]

\* Lines 87-95: userData = universalData.__DEFAULT_SCOPE__['webapp.user-detail'].userInfo?.user
HasUserData(pg, blob) ==
    CASE blob = "primary"   -> pg.primary = "user"
      [] blob = "secondary" -> pg.secondary = "user"
      [] OTHER -> FALSE

\* Lines 99-119: the record built from the user entity
TikTokFromBlob(h, pg) ==
    [username |-> CleanHandle(h), nickname |-> "Name",
     followers |-> pg.followers, videoCount |-> pg.videoCount,
     recentVideos |-> RecentSlice(pg.items)]

\* Lines 141-156: the record built from the meta description
TikTokFromMeta(h, pg) ==
    [username |-> CleanHandle(h), nickname |-> "Name",
     followers |-> IF pg.metaMatch THEN pg.followers ELSE 0,
     videoCount |-> IF pg.metaMatch THEN pg.videoCount ELSE 0,
     recentVideos |-> <<>>]

\* page.goto(url, { waitUntil: 'networkidle2', timeout: 30000 })
TT_Goto(ok) ==
    /\ ex = "tiktok"
    /\ epc = "goto"
    /\ fetches' = fetches + 1
    /\ IF ok
       THEN /\ epc' = "evalBlob"
            /\ UNCHANGED <<attempted, failedAt, pendingRet>>
       ELSE ToCatch("goto", attempted, TikTokBaseline(handle))
    /\ UNCHANGED <<outsideEx, ex, handle, env, browser, loc, eret>>

\* Lines 58-124: the first page.evaluate and the navigation of its result.
\* When the evaluate call fails, the catch block is next.
TT_EvalBlob(ok) ==
    /\ ex = "tiktok"
    /\ epc = "evalBlob"
    /\ IF ok
       THEN LET r == EvalBlob(env)
            IN IF HasUserData(env, r.blob)
               THEN ToReturn(attempted \o r.tried, TikTokFromBlob(handle, env))
               ELSE /\ attempted' = attempted \o r.tried
                    /\ epc' = "evalMeta"
                    /\ UNCHANGED <<failedAt, pendingRet>>
       ELSE ToCatch("evalBlob", Append(attempted, "primary"), TikTokBaseline(handle))
    /\ UNCHANGED <<outsideEx, ex, handle, env, browser, fetches, loc, eret>>

\* Lines 126-159: the second page.evaluate (meta tags) and its record
TT_EvalMeta(ok) ==
    /\ ex = "tiktok"
    /\ epc = "evalMeta"
    /\ IF ok
       THEN ToReturn(Append(attempted, "meta"), TikTokFromMeta(handle, env))
       ELSE ToCatch("evalMeta", Append(attempted, "meta"), TikTokBaseline(handle))
    /\ UNCHANGED <<outsideEx, ex, handle, env, browser, fetches, loc, eret>>


\* ------------------------------------------------------------- scrapeInstagram
\* What page.goto and the rendered Instagram profile page can give: the
\* response (none, 404 or a page), the meta description, the _sharedData
\* blob, its timeline edges and the likes + comments of each post.
InstagramPages ==
    [status : {"ok", "notFound", "noResponse"}, metaMatch : BOOLEAN,
     followers : {0, MaxCount}, postsCount : {0, 1},
     shared : Blob, edges : ItemCounts, engagement : {0, 1}]

\* Lines 77-83: followers / postsCount parsed from the meta description
InstagramFromMeta(pg) ==
    [followers |-> IF pg.metaMatch THEN pg.followers ELSE 0,
     postsCount |-> IF pg.metaMatch THEN pg.postsCount ELSE 0]

\* Lines 95-120: recentPosts from the shared-data blob; the page
\* function's JSON.parse is not guarded, so an unparsable blob makes the
\* evaluate call fail, which the local try/catch swallows.
InstagramRecentPosts(ok, pg) ==
    IF ok /\ pg.shared = "user" THEN RecentSlice(pg.edges) ELSE <<>>

\* Lines 126-129 and 143: the engagement rate, rounded to two decimals (in
\* hundredths of a percent)
EngagementRate(posts, perPost, followers) ==
    IF posts > 0 /\ followers > 0
    THEN RoundDiv(perPost * posts * 100 * 100, posts * followers)
    ELSE 0

\* Lines 133-145: the record returned
InstagramRecord(h, meta, posts, perPost) ==
    [username |-> CleanHandle(h), fullName |-> "Name",
     followers |-> meta.followers, postsCount |-> meta.postsCount,
     engagementRate |-> EngagementRate(Len(posts), perPost, meta.followers),
     recentPosts |-> posts]

\* Lines 52-58: page.goto, then `if (!response || response.status() === 404) throw`
IG_Goto(ok) ==
    /\ ex = "instagram"
    /\ epc = "goto"
    /\ fetches' = fetches + 1
    /\ IF ok /\ env.status = "ok"
       THEN /\ epc' = "evalMeta"
            /\ UNCHANGED <<attempted, failedAt, pendingRet>>
       ELSE ToCatch(IF ok THEN "notFound" ELSE "goto", attempted,
                    InstagramBaseline(handle))
    /\ UNCHANGED <<outsideEx, ex, handle, env, browser, loc, eret>>

\* Lines 60-87: page.evaluate of the meta tags, then the parse of its result
IG_EvalMeta(ok) ==
    /\ ex = "instagram"
    /\ epc = "evalMeta"
    /\ IF ok
       THEN /\ loc' = InstagramFromMeta(env)
            /\ attempted' = Append(attempted, "meta")
            /\ epc' = "evalShared"
            /\ UNCHANGED <<failedAt, pendingRet>>
       ELSE /\ loc' = loc
            /\ ToCatch("evalMeta", Append(attempted, "meta"), InstagramBaseline(handle))
    /\ UNCHANGED <<outsideEx, ex, handle, env, browser, fetches, eret>>

\* Lines 89-145: the guarded page.evaluate of the shared data, the engagement
\* rate and the return
IG_EvalShared(ok) ==
    /\ ex = "instagram"
    /\ epc = "evalShared"
    /\ env.shared = "unparsable" => ~ok
    /\ ToReturn(Append(attempted, "shared"),
                InstagramRecord(handle, loc, InstagramRecentPosts(ok, env),
                                env.engagement))
    /\ UNCHANGED <<outsideEx, ex, handle, env, browser, fetches, loc, eret>>

\* --------------------------------------------------------------- scrapeWebsite
WebsitePages == [title : {"", "Title"}]

\* demo-builder.ts lines 206: page.goto
WS_Goto(ok) ==
    /\ ex = "website"
    /\ epc = "goto"
    /\ fetches' = fetches + 1
    /\ IF ok
       THEN /\ epc' = "evaluate"
            /\ UNCHANGED <<attempted, failedAt, pendingRet>>
       ELSE ToCatch("goto", attempted, WebsiteBaseline(handle))
    /\ UNCHANGED <<outsideEx, ex, handle, env, browser, loc, eret>>

\* Lines 208-306: the single page.evaluate and `return { url, ...data }`
WS_Evaluate(ok) ==
    /\ ex = "website"
    /\ epc = "evaluate"
    /\ IF ok
       THEN ToReturn(Append(attempted, "page"),
                     [url |-> NormalizeUrl(handle), title |-> env.title])
       ELSE ToCatch("evaluate", Append(attempted, "page"), WebsiteBaseline(handle))
    /\ UNCHANGED <<outsideEx, ex, handle, env, browser, fetches, loc, eret>>

\* --------------------------------------------------------------- scrapeYouTube
\* The API's answers: whether YOUTUBE_API_KEY is set; the channels?forHandle
\* lookup; the channel search; the channel details; the recent-video search
\* (fails, or yields so many video ids); the video details.
YouTubeEnvs ==
    [apiKey : BOOLEAN, byHandle : {"fail", "empty", "found"},
     search : {"fail", "empty", "noId", "found"},
     channel : {"fail", "empty", "found"},
     subscribers : {0, MaxCount}, videoCount : {0, 1},
     recentIds : {"fail", "none", "some"}, videoItems : {1, MaxItems},
     videos : {"fail", "ok"}]

\* (videosResponse.data.items || []).map(...): every item of the videos
\* response, in its order, an item standing for its position in the response
VideoItems(e) == [i \in 1..e.videoItems |-> i]

\* handle.startsWith('UC') && handle.length === 24
IsChannelId(h) == h = "UC24"

YouTubeRecord(h, channelId, e, recent) ==
    [channelId |-> channelId, channelName |-> "Name",
     subscribers |-> e.subscribers, videoCount |-> e.videoCount,
     recentVideos |-> recent]

\* scrapeYouTube has no finally block: a return settles the call at once.
YT_Return(rec) ==
    /\ eret' = ExReturned(rec)
    /\ epc' = "done"

\* Lines 672-678: without an API key the empty record is returned at once
YT_Start ==
    /\ ex = "youtube"
    /\ epc = "start"
    /\ IF env.apiKey
       THEN /\ epc' = "byHandle"
            /\ UNCHANGED <<eret, attempted>>
       ELSE /\ YT_Return(YouTubeBaseline(handle))
            /\ attempted' = Append(attempted, "baseline")
    /\ UNCHANGED <<outsideEx, ex, handle, env, browser, fetches, failedAt, loc, pendingRet>>

\* findChannelId, lines 733-749: the forHandle lookup (its failure is
\* swallowed), then the channel-id shape test
YT_ByHandle ==
    /\ ex = "youtube"
    /\ epc = "byHandle"
    /\ fetches' = fetches + 1
    /\ attempted' = Append(attempted, "forHandle")
    /\ IF env.byHandle = "found"
       THEN /\ loc' = [channelId |-> "UC"]
            /\ epc' = "channel"
       ELSE IF IsChannelId(CleanHandle(handle))
            THEN /\ loc' = [channelId |-> CleanHandle(handle)]
                 /\ epc' = "channel"
            ELSE /\ loc' = loc
                 /\ epc' = "search"
    /\ UNCHANGED <<outsideEx, ex, handle, env, browser, failedAt, pendingRet, eret>>

\* findChannelId, lines 751-767, and lines 683-686: the channel search; no
\* channel id means the empty record
YT_Search ==
    /\ ex = "youtube"
    /\ epc = "search"
    /\ fetches' = fetches + 1
    /\ attempted' = Append(attempted, "search")
    /\ IF env.search = "found"
       THEN /\ loc' = [channelId |-> "UC"]
            /\ epc' = "channel"
            /\ UNCHANGED eret
       ELSE /\ loc' = loc
            /\ YT_Return(YouTubeBaseline(handle))
    /\ UNCHANGED <<outsideEx, ex, handle, env, browser, failedAt, pendingRet>>

\* Lines 688-703 and 725-728: the channel details; a failed request reaches
\* the catch block, no item returns the empty record
YT_Channel ==
    /\ ex = "youtube"
    /\ epc = "channel"
    /\ fetches' = fetches + 1
    /\ IF env.channel = "found"
       THEN /\ epc' = "recentSearch"
            /\ UNCHANGED <<eret, failedAt>>
       ELSE /\ YT_Return(YouTubeBaseline(handle))
            /\ failedAt' = IF env.channel = "fail" THEN "channel" ELSE failedAt
    /\ UNCHANGED <<outsideEx, ex, handle, env, browser, attempted, loc, pendingRet>>

\* getRecentVideos, lines 771-788: the search for recent video ids
YT_RecentSearch ==
    /\ ex = "youtube"
    /\ epc = "recentSearch"
    /\ fetches' = fetches + 1
    /\ IF env.recentIds = "some"
       THEN /\ epc' = "videos"
            /\ UNCHANGED eret
       ELSE YT_Return(YouTubeRecord(handle, loc.channelId, env, <<>>))
    /\ UNCHANGED <<outsideEx, ex, handle, env, browser, attempted, failedAt, loc, pendingRet>>

\* getRecentVideos, lines 790-812, and lines 708-723: the video details
YT_Videos ==
    /\ ex = "youtube"
    /\ epc = "videos"
    /\ fetches' = fetches + 1
    /\ YT_Return(YouTubeRecord(handle, loc.channelId, env,
                               IF env.videos = "ok" THEN VideoItems(env) ELSE <<>>))
    /\ UNCHANGED <<outsideEx, ex, handle, env, browser, attempted, failedAt, loc, pendingRet>>

\* ------------------------------------------------------------ scrapeRestaurant
\* What the listing gives: the number of photo URLs of the listing, the
\* reviews that pass the filter, whether the ranking finds a hero.
RestaurantEnvs == [photos : {0, 2}, reviews : {0, 1}, hero : BOOLEAN]

\* index.ts lines 62-74: scrapeGoogleMaps; its failure is rethrown as
\* Error(`Failed to find restaurant: ...`)
R_Maps(ok) ==
    /\ ex = "restaurant"
    /\ epc = "maps"
    /\ fetches' = fetches + 1
    /\ IF ok
       THEN /\ loc' = [name |-> "Name", photoUrls |-> env.photos,
                       reviews |-> 0, ranked |-> "none", photos |-> 0,
                       warned |-> {}]
            /\ epc' = "reviews"
            /\ UNCHANGED <<eret, failedAt>>
       ELSE /\ loc' = loc
            /\ eret' = ExThrew
            /\ failedAt' = "maps"
            /\ epc' = "done"
    /\ UNCHANGED <<outsideEx, ex, handle, env, browser, attempted, pendingRet>>

\* Lines 150-165: the record returned
RestaurantRecord(l) ==
    [name |-> l.name, slug |-> "name", reviews |-> l.reviews, photos |-> l.photos]

\* The reviews step without its try/catch: a failure rejects the whole call.
R_ReviewsFailFast(ok) ==
    /\ ex = "restaurant"
    /\ epc = "reviews"
    /\ IF ok
       THEN /\ loc' = [loc EXCEPT !.reviews = env.reviews]
            /\ epc' = IF loc.photoUrls > 0 THEN "analyze" ELSE "done"
            /\ eret' = IF loc.photoUrls > 0 THEN eret
                       ELSE ExReturned(RestaurantRecord(loc'))
       ELSE /\ loc' = loc
            /\ epc' = "done"
            /\ eret' = ExThrew
    /\ UNCHANGED <<outsideEx, ex, handle, env, browser, fetches, attempted, failedAt,
                   pendingRet>>

\* Lines 76-85: the reviews step, best effort (the catch block only warns);
\* without photos the function then runs to its return
R_Reviews(ok) ==
    /\ ex = "restaurant"
    /\ epc = "reviews"
    /\ LET l == [loc EXCEPT !.reviews = IF ok THEN env.reviews ELSE 0,
                            !.warned = IF ok THEN @ ELSE @ \cup {"reviews"}]
       IN /\ loc' = l
          /\ IF l.photoUrls > 0
             THEN /\ epc' = "analyze"
                  /\ UNCHANGED eret
             ELSE /\ epc' = "done"
                  /\ eret' = ExReturned(RestaurantRecord(l))
    /\ UNCHANGED <<outsideEx, ex, handle, env, browser, fetches, attempted, failedAt,
                   pendingRet>>

\* Lines 87-99: the photo analysis, best effort
R_Analyze(ok) ==
    /\ ex = "restaurant"
    /\ epc = "analyze"
    /\ loc' = [loc EXCEPT !.ranked = IF ~ok THEN "none"
                                     ELSE IF env.hero THEN "hero" ELSE "noHero",
                           !.warned = IF ok THEN @ ELSE @ \cup {"analyze"}]
    /\ epc' = "download"
    /\ UNCHANGED <<outsideEx, ex, handle, env, browser, fetches, attempted, failedAt,
                   pendingRet, eret>>

\* Lines 101-165: the download step, best effort, and the return
R_Download(ok) ==
    /\ ex = "restaurant"
    /\ epc = "download"
    /\ LET l == [loc EXCEPT !.photos =
                    IF ~ok THEN 0
                    ELSE IF loc.ranked = "hero" THEN 1 ELSE loc.photoUrls,
                            !.warned = IF ok THEN @ ELSE @ \cup {"download"}]
       IN /\ loc' = l
          /\ eret' = ExReturned(RestaurantRecord(l))
    /\ epc' = "done"
    /\ UNCHANGED <<outsideEx, ex, handle, env, browser, fetches, attempted, failedAt,
                   pendingRet>>

\* ----------------------------------------------- one extractor call, any of them
\* ------------------------------------------- scrapeGoogleMaps, scrapeReviews
\* Both functions share one skeleton: `const browser = await
\* puppeteer.launch(...)` before the try, the whole extraction inside
\* `try { ... }`, no catch, and `finally { await browser.close(); }`.
Listing == {"google_maps", "google_reviews"}

ListingEnvs == [kind : {"listing"}]

ListingResult(e) == [kind |-> e]

\* puppeteer.launch(...) before the try: a failure rejects the call at once
ListingLaunch(ok) ==
    /\ ex \in Listing
    /\ epc = "launch"
    /\ IF ok
       THEN /\ browser' = "open"
            /\ epc' = "body"
            /\ UNCHANGED <<failedAt, eret>>
       ELSE /\ browser' = browser
            /\ failedAt' = "launch"
            /\ eret' = ExThrew
            /\ epc' = "done"
    /\ UNCHANGED <<outsideEx, ex, handle, env, fetches, attempted, loc, pendingRet>>

\* The try block: newPage, goto, waits, evaluate and the `return`; there is
\* no catch, so an exception is held back while `finally` runs.
ListingBody(ok) ==
    /\ ex \in Listing
    /\ epc = "body"
    /\ fetches' = fetches + 1
    /\ IF ok
       THEN /\ pendingRet' = [kind |-> "data", val |-> ListingResult(ex)]
            /\ failedAt' = failedAt
       ELSE /\ pendingRet' = [kind |-> "throw", val |-> Null]
            /\ failedAt' = "body"
    /\ epc' = "finally"
    /\ UNCHANGED <<outsideEx, ex, handle, env, browser, attempted, loc, eret>>

\* `finally { await browser.close(); }`: the held-back outcome is delivered
\* unless close() itself fails.
ListingFinally(ok) ==
    /\ ex \in Listing
    /\ epc = "finally"
    /\ IF ok
       THEN /\ browser' = "closed"
            /\ eret' = IF pendingRet.kind = "throw" THEN ExThrew
                       ELSE ExReturned(pendingRet.val)
       ELSE /\ browser' = browser
            /\ eret' = ExThrew
    /\ epc' = "done"
    /\ UNCHANGED <<outsideEx, ex, handle, env, fetches, attempted, failedAt, loc,
                   pendingRet>>

Extractors == {"tiktok", "instagram", "website", "youtube", "restaurant",
               "google_maps", "google_reviews"}

HandlesOf(e) == IF e = "youtube" THEN ExHandle \cup {"UC24"} ELSE ExHandle

EnvsOf(e) ==
    CASE e = "tiktok"     -> TikTokPages
      [] e = "instagram"  -> InstagramPages
      [] e = "website"    -> WebsitePages
      [] e = "youtube"    -> YouTubeEnvs
      [] e = "restaurant" -> RestaurantEnvs
      [] e \in Listing     -> ListingEnvs

StartOf(e) ==
    CASE e \in Puppeteer  -> "launch"
      [] e = "youtube"    -> "start"
      [] e = "restaurant" -> "maps"
      [] e \in Listing     -> "launch"

InitExtract ==
    /\ AggOff
    /\ RankOff
    /\ FunctionsOff
    /\ ex \in Extractors
    /\ handle \in HandlesOf(ex)
    /\ env \in EnvsOf(ex)
    /\ epc = StartOf(ex)
    /\ browser = "none"
    /\ fetches = 0
    /\ attempted = <<>>
    /\ failedAt = "none"
    /\ loc = Null
    /\ pendingRet = Null
    /\ eret = ExPending

NextExtract ==
    \/ \E ok \in BOOLEAN : LaunchBrowser(ok)
    \/ \E ok \in BOOLEAN : SetupPage(ok)
    \/ \E ok \in BOOLEAN : Finally(ok)
    \/ \E ok \in BOOLEAN : TT_Goto(ok)
    \/ \E ok \in BOOLEAN : TT_EvalBlob(ok)
    \/ \E ok \in BOOLEAN : TT_EvalMeta(ok)
    \/ \E ok \in BOOLEAN : IG_Goto(ok)
    \/ \E ok \in BOOLEAN : IG_EvalMeta(ok)
    \/ \E ok \in BOOLEAN : IG_EvalShared(ok)
    \/ \E ok \in BOOLEAN : WS_Goto(ok)
    \/ \E ok \in BOOLEAN : WS_Evaluate(ok)
    \/ YT_Start
    \/ YT_ByHandle
    \/ YT_Search
    \/ YT_Channel
    \/ YT_RecentSearch
    \/ YT_Videos
    \/ \E ok \in BOOLEAN : R_Maps(ok)
    \/ \E ok \in BOOLEAN : R_Reviews(ok)
    \/ \E ok \in BOOLEAN : R_Analyze(ok)
    \/ \E ok \in BOOLEAN : R_Download(ok)
    \/ \E ok \in BOOLEAN : ListingLaunch(ok)
    \/ \E ok \in BOOLEAN : ListingBody(ok)
    \/ \E ok \in BOOLEAN : ListingFinally(ok)

SpecExtract == InitExtract /\ [][NextExtract]_vars

\* ============================================================ photo-analyzer.ts
PhotoType == {"FOOD", "AMBIANCE", "EXTERIOR", "PEOPLE", "OTHER"}
PhotoRecommendation == {"HERO", "GALLERY", "SKIP"}

\* quality and visualAppeal as the prompt asks for them: 1-10
MinRating == 1
MaxRating == 10
Ratings == MinRating..MaxRating

\* What fetching and analysing one URL gives: the image fetch fails
\* (urlToBase64 rethrows), the vision API call fails, the reply is not JSON
\* (JSON.parse throws), or the reply is the JSON object the prompt asks for.
AnalysisFailures == {[kind |-> "fetchError"], [kind |-> "apiError"], [kind |-> "badJson"]}
ParsedReplies ==
    [kind : {"json"}, type : PhotoType, quality : Ratings, visualAppeal : Ratings,
     recommendation : PhotoRecommendation]

\* Lines 130-133: the multipliers, in tenths
TypeFactor(t) ==
    CASE t = "FOOD"     -> 13
      [] t = "AMBIANCE" -> 11
      [] OTHER          -> 10
\* SKIP halving the score.
RecommendationFactorMildSkip(r) ==
    CASE r = "HERO" -> 12
      [] r = "SKIP" -> 5
      [] OTHER      -> 10
RecommendationFactor(r) ==
    CASE r = "HERO" -> 12
      [] r = "SKIP" -> 3
      [] OTHER      -> 10

\* The score with the AMBIANCE multiplier forgotten.
ScoreNoAmbiance(p) ==
    RoundDiv((p.quality + p.visualAppeal)
                 * (IF p.type = "FOOD" THEN 13 ELSE 10)
                 * RecommendationFactor(p.recommendation), 20)

\* Lines 129-133 and 142: the score, held in tenths (the code keeps one
\* decimal: Math.round(score * 10) / 10).  The arithmetic is IEEE double: of
\* the 171 combinations of sum, type and recommendation one differs from the
\* exact half-up rounding: 4.5 * 0.3 is 1.3499999999999999, so an average of
\* 4.5 with no type bonus and SKIP scores 1.3, not 1.4.
Score(p) ==
    IF /\ p.quality + p.visualAppeal = 9
       /\ TypeFactor(p.type) = 10
       /\ p.recommendation = "SKIP"
    THEN 13
    ELSE RoundDiv((p.quality + p.visualAppeal)
                      * TypeFactor(p.type)
                      * RecommendationFactor(p.recommendation), 20)

\* The i-th URL of a list (URLs are non-empty strings, so truthy)
Url(i) == [href |-> i]

\* analyzePhoto, lines 66-149: null when anything inside the try block
\* throws, else the PhotoAnalysis.  `id` stands for the identity of the
\* object created (the code compares analyses with ===).
AnalyzePhoto(i, url, reply) ==
    IF reply.kind # "json" THEN Null
    ELSE [id |-> i, url |-> url, type |-> reply.type, quality |-> reply.quality,
          visualAppeal |-> reply.visualAppeal,
          recommendation |-> reply.recommendation, score |-> Score(reply)]

BatchSize == 3
GalleryCap == 5
\* `photo.score < 4`, in tenths
ScoreFloor == 40
\* findBestHeroPhoto analyses at most 6 URLs; scrapeRestaurant passes 8
HeroMaxToAnalyze == 6
RestaurantMaxToAnalyze == 8

\* Line 182: results.sort((a, b) => b.score - a.score), a stable sort:
\* an element is placed after every element whose score is not lower.
RECURSIVE InsertByScore(_, _)
InsertByScore(sorted, x) ==
    IF sorted = <<>> THEN <<x>>
    ELSE IF Head(sorted).score >= x.score
         THEN <<Head(sorted)>> \o InsertByScore(Tail(sorted), x)
         ELSE <<x>> \o sorted

RECURSIVE SortByScore(_)
SortByScore(s) ==
    IF s = <<>> THEN <<>>
    ELSE InsertByScore(SortByScore(SubSeq(s, 1, Len(s) - 1)), s[Len(s)])

IsFoodPhoto(r) == r.type = "FOOD" /\ r.recommendation # "SKIP"
IsNonSkipped(r) == r.recommendation # "SKIP"

\* The hero chosen as the best non-SKIP photo whatever its type.
SelectHeroAnyType(sorted) ==
    LET nonSkipped == SelectSeq(sorted, IsNonSkipped)
    IN IF Len(nonSkipped) > 0 THEN nonSkipped[1] ELSE Null

\* Lines 185-194: the hero
SelectHero(sorted) ==
    LET foodPhotos == SelectSeq(sorted, IsFoodPhoto)
        nonSkipped == SelectSeq(sorted, IsNonSkipped)
    IN IF Len(foodPhotos) > 0 THEN foodPhotos[1]
       ELSE IF Len(nonSkipped) > 0 THEN nonSkipped[1]
       ELSE Null

\* The gallery loop without the test that passes over the hero.
RECURSIVE GalleryLoopKeepsHero(_, _, _, _, _)
GalleryLoopKeepsHero(sorted, k, hero, gallery, skipped) ==
    IF k > Len(sorted) THEN [gallery |-> gallery, skipped |-> skipped]
    ELSE LET photo == sorted[k]
         IN IF photo.recommendation = "SKIP" \/ photo.score < ScoreFloor
            THEN GalleryLoopKeepsHero(sorted, k + 1, hero, gallery, Append(skipped, photo))
            ELSE IF Len(gallery) < GalleryCap
            THEN GalleryLoopKeepsHero(sorted, k + 1, hero, Append(gallery, photo), skipped)
            ELSE GalleryLoopKeepsHero(sorted, k + 1, hero, gallery, Append(skipped, photo))

\* The gallery loop without the score floor.
RECURSIVE GalleryLoopNoFloor(_, _, _, _, _)
GalleryLoopNoFloor(sorted, k, hero, gallery, skipped) ==
    IF k > Len(sorted) THEN [gallery |-> gallery, skipped |-> skipped]
    ELSE LET photo == sorted[k]
         IN IF photo = hero
            THEN GalleryLoopNoFloor(sorted, k + 1, hero, gallery, skipped)
            ELSE IF photo.recommendation = "SKIP"
            THEN GalleryLoopNoFloor(sorted, k + 1, hero, gallery, Append(skipped, photo))
            ELSE IF Len(gallery) < GalleryCap
            THEN GalleryLoopNoFloor(sorted, k + 1, hero, Append(gallery, photo), skipped)
            ELSE GalleryLoopNoFloor(sorted, k + 1, hero, gallery, Append(skipped, photo))

\* The gallery loop without the cap.
RECURSIVE GalleryLoopNoCap(_, _, _, _, _)
GalleryLoopNoCap(sorted, k, hero, gallery, skipped) ==
    IF k > Len(sorted) THEN [gallery |-> gallery, skipped |-> skipped]
    ELSE LET photo == sorted[k]
         IN IF photo = hero
            THEN GalleryLoopNoCap(sorted, k + 1, hero, gallery, skipped)
            ELSE IF photo.recommendation = "SKIP" \/ photo.score < ScoreFloor
            THEN GalleryLoopNoCap(sorted, k + 1, hero, gallery, Append(skipped, photo))
            ELSE GalleryLoopNoCap(sorted, k + 1, hero, Append(gallery, photo), skipped)

\* Lines 197-210: the loop over the sorted results
RECURSIVE GalleryLoop(_, _, _, _, _)
GalleryLoop(sorted, k, hero, gallery, skipped) ==
    IF k > Len(sorted) THEN [gallery |-> gallery, skipped |-> skipped]
    ELSE LET photo == sorted[k]
         IN IF photo = hero
            THEN GalleryLoop(sorted, k + 1, hero, gallery, skipped)
            ELSE IF photo.recommendation = "SKIP" \/ photo.score < ScoreFloor
            THEN GalleryLoop(sorted, k + 1, hero, gallery, Append(skipped, photo))
            ELSE IF Len(gallery) < GalleryCap
            THEN GalleryLoop(sorted, k + 1, hero, Append(gallery, photo), skipped)
            ELSE GalleryLoop(sorted, k + 1, hero, gallery, Append(skipped, photo))

\* Lines 181-219: sort, select, return
RankPhotos(res) ==
    LET sorted == SortByScore(res)
        hero == SelectHero(sorted)
        rest == GalleryLoop(sorted, 1, hero, <<>>, <<>>)
    IN [hero |-> hero, gallery |-> rest.gallery, skipped |-> rest.skipped,
        totalAnalyzed |-> Len(res)]

\* ------------------------------------------- analyzeAndRankPhotos, step by step
MaxUrls == 4
MaxLong == 7

\* The replies drawn for the URLs of a list: every reply for a single URL, a
\* palette with each kind of candidate for short lists (a plain FOOD photo, a
\* higher-scoring AMBIANCE photo, a SKIP, one exactly at the floor, one below
\* it, two failures), and for the lists long enough to fill the gallery the
\* two qualifying candidates and a failure.
PlainFood == [kind |-> "json", type |-> "FOOD", quality |-> 6, visualAppeal |-> 6,
              recommendation |-> "GALLERY"]
BestAmbiance == [kind |-> "json", type |-> "AMBIANCE", quality |-> 10,
                 visualAppeal |-> 10, recommendation |-> "HERO"]
SkippedFood == [kind |-> "json", type |-> "FOOD", quality |-> 10, visualAppeal |-> 10,
                recommendation |-> "SKIP"]
AtFloor == [kind |-> "json", type |-> "OTHER", quality |-> 4, visualAppeal |-> 4,
            recommendation |-> "GALLERY"]
BelowFloor == [kind |-> "json", type |-> "EXTERIOR", quality |-> 3, visualAppeal |-> 4,
               recommendation |-> "GALLERY"]
RepliesFor(n) ==
    IF n = 1 THEN ParsedReplies \cup AnalysisFailures
    ELSE IF n <= MaxUrls
    THEN {PlainFood, BestAmbiance, SkippedFood, AtFloor, BelowFloor,
          [kind |-> "fetchError"], [kind |-> "badJson"]}
    ELSE {PlainFood, BestAmbiance, [kind |-> "apiError"]}

PendingAnalysis == [pending |-> TRUE]
NotReturned == [st |-> "pending", val |-> Null]

InitRank ==
    /\ AggOff
    /\ ExOff
    /\ FunctionsOff
    /\ caller \in {"rank", "hero"}
    /\ \E n \in 0..MaxLong :
          /\ urls = [i \in 1..n |-> Url(i)]
          /\ response \in [1..n -> RepliesFor(n)]
    /\ maxToAnalyze = IF caller = "rank" THEN RestaurantMaxToAnalyze ELSE 0
    /\ rpc = IF caller = "rank" THEN "loop" ELSE "call"
    /\ batchStart = 0
    /\ batchResults = <<>>
    /\ settleOrder = <<>>
    /\ photoResults = <<>>
    /\ ranked = Null
    /\ heroUrl = NotReturned
    /\ inFlight = {}
    /\ fetched = {}

\* findBestHeroPhoto with no limit on the URLs analysed.
HeroLimitNone(n) == n

\* Line 228: Math.min(urls.length, 6)
HeroLimit(n) == Min(n, HeroMaxToAnalyze)

\* findBestHeroPhoto, lines 225-228: null for an empty list, else the call of
\* analyzeAndRankPhotos
FB_Call ==
    /\ caller = "hero"
    /\ rpc = "call"
    /\ IF Len(urls) = 0
       THEN /\ heroUrl' = [st |-> "returned", val |-> Null]
            /\ rpc' = "done"
            /\ UNCHANGED maxToAnalyze
       ELSE /\ maxToAnalyze' = HeroLimit(Len(urls))
            /\ rpc' = "loop"
            /\ UNCHANGED heroUrl
    /\ UNCHANGED <<outsideRank, caller, urls, response, batchStart, batchResults,
                   settleOrder, photoResults, ranked, inFlight, fetched>>

\* The whole list analysed.
ToAnalyzeAll == urls

\* Line 160: urls.slice(0, maxToAnalyze)
ToAnalyze == SubSeq(urls, 1, Min(Len(urls), maxToAnalyze))

\* Lines 165-171: the next batch; its analyses are all started
AR_Batch ==
    /\ rpc = "loop"
    /\ batchStart < Len(ToAnalyze)
    /\ batchResults' = [k \in 1..Min(BatchSize, Len(ToAnalyze) - batchStart)
                           |-> PendingAnalysis]
    /\ inFlight' = inFlight \cup {batchStart + k : k \in DOMAIN batchResults'}
    /\ fetched' = fetched \cup {ToAnalyze[batchStart + k].href : k \in DOMAIN batchResults'}
    /\ settleOrder' = <<>>
    /\ rpc' = "await"
    /\ UNCHANGED <<outsideRank, caller, urls, response, maxToAnalyze, batchStart,
                   photoResults, ranked, heroUrl>>

\* One analyzePhoto call of the batch settles; Promise.all keeps its value at
\* the position of its URL.
AP_Settle(k) ==
    /\ rpc = "await"
    /\ k \in DOMAIN batchResults
    /\ batchResults[k] = PendingAnalysis
    /\ batchResults' = [batchResults EXCEPT ![k] =
                           AnalyzePhoto(batchStart + k, ToAnalyze[batchStart + k],
                                        response[batchStart + k])]
    /\ settleOrder' = Append(settleOrder, k)
    /\ inFlight' = inFlight \ {batchStart + k}
    /\ UNCHANGED <<outsideRank, caller, urls, response, maxToAnalyze, rpc, batchStart,
                   photoResults, ranked, heroUrl, fetched>>

AP_SettleSome == \E k \in 1..BatchSize : AP_Settle(k)

\* The batch pushed in the order its analyses settled.
CollectInSettleOrder(res, batch, order) ==
    res \o SelectSeq([j \in 1..Len(order) |-> batch[order[j]]], Truthy)

\* The batch dropped as a whole when one of its analyses failed.
CollectAllOrNothing(res, batch, order) ==
    IF \E k \in 1..Len(batch) : batch[k] = Null THEN res ELSE res \o batch

\* Line 173: results.push(...batchResults.filter(r => r !== null))
CollectBatch(res, batch, order) == res \o SelectSeq(batch, Truthy)

\* The loop going on as soon as one analysis of the batch has settled.
AR_CollectEarly ==
    /\ rpc = "await"
    /\ \E k \in DOMAIN batchResults : batchResults[k] # PendingAnalysis
    /\ photoResults' = CollectBatch(photoResults,
                            SelectSeq(batchResults, LAMBDA r : r # PendingAnalysis),
                            settleOrder)
    /\ batchStart' = batchStart + BatchSize
    /\ batchResults' = <<>>
    /\ rpc' = "loop"
    /\ UNCHANGED <<outsideRank, caller, urls, response, maxToAnalyze, settleOrder,
                   ranked, heroUrl, inFlight, fetched>>

\* Lines 169-178: every analysis of the batch has settled, the non-null ones
\* are pushed and the loop goes on
AR_Collect ==
    /\ rpc = "await"
    /\ \A k \in DOMAIN batchResults : batchResults[k] # PendingAnalysis
    /\ photoResults' = CollectBatch(photoResults, batchResults, settleOrder)
    /\ batchStart' = batchStart + BatchSize
    /\ batchResults' = <<>>
    /\ rpc' = "loop"
    /\ UNCHANGED <<outsideRank, caller, urls, response, maxToAnalyze, settleOrder,
                   ranked, heroUrl, inFlight, fetched>>

\* Lines 181-219: after the loop the results are sorted in place and
\* partitioned
AR_Rank ==
    /\ rpc = "loop"
    /\ batchStart >= Len(ToAnalyze)
    /\ photoResults' = SortByScore(photoResults)
    /\ ranked' = RankPhotos(photoResults)
    /\ rpc' = IF caller = "hero" THEN "ranked" ELSE "done"
    /\ UNCHANGED <<outsideRank, caller, urls, response, maxToAnalyze, batchStart,
                   batchResults, settleOrder, heroUrl, inFlight, fetched>>

\* Line 229: result.hero?.url || urls[0]
FB_Return ==
    /\ caller = "hero"
    /\ rpc = "ranked"
    /\ heroUrl' = [st |-> "returned",
                   val |-> IF Truthy(ranked.hero) THEN ranked.hero.url ELSE urls[1]]
    /\ rpc' = "done"
    /\ UNCHANGED <<outsideRank, caller, urls, response, maxToAnalyze, batchStart,
                   batchResults, settleOrder, photoResults, ranked, inFlight, fetched>>

NextRank ==
    \/ FB_Call
    \/ AR_Batch
    \/ AP_SettleSome
    \/ AR_Collect
    \/ AR_Rank
    \/ FB_Return

SpecRank == InitRank /\ [][NextRank]_vars

\* ===================================================== parseCount (tiktok.ts)
\* A string is a sequence of characters.  The alphabet has digits, the
\* thousands separator, the decimal point, an upper-case thousand suffix, a
\* lower-case million suffix, a letter and a blank.
MaxStrLen == 5
Chars == {"1", "2", "3", ",", ".", "K", "m", "a", " "}
Strings == UNION { [1..n -> Chars] : n \in 0..MaxStrLen }
IsDigit(c) == c \in {"0", "1", "2", "3", "4", "5", "6", "7", "8", "9"}
DigitVal(c) ==
    CASE c = "0" -> 0 [] c = "1" -> 1 [] c = "2" -> 2 [] c = "3" -> 3
      [] c = "4" -> 4 [] c = "5" -> 5 [] c = "6" -> 6 [] c = "7" -> 7
      [] c = "8" -> 8 [] c = "9" -> 9
IsSuffix(c) == c \in {"K", "k", "M", "m"}
IsNotComma(c) == c # ","

\* A JS number: NaN, or num x 10^exp (exp < 0 for a number with decimals).
\* Kept in this form, a count in the billions needs no wide integer.
NaN == [nan |-> TRUE, num |-> 0, exp |-> 0]
Num(n, e) == [nan |-> FALSE, num |-> n, exp |-> e]

RECURSIVE TrimStart(_)
TrimStart(s) ==
    IF s # <<>> /\ Head(s) = " " THEN TrimStart(Tail(s)) ELSE s
RECURSIVE TrimEnd(_)
TrimEnd(s) ==
    IF s # <<>> /\ s[Len(s)] = " " THEN TrimEnd(SubSeq(s, 1, Len(s) - 1)) ELSE s
\* String.prototype.trim
Trim(s) == TrimEnd(TrimStart(s))

\* The number of consecutive digits of s from position i on
RECURSIVE DigitRun(_, _)
DigitRun(s, i) ==
    IF i <= Len(s) /\ IsDigit(s[i]) THEN 1 + DigitRun(s, i + 1) ELSE 0
\* The value of a digit string
RECURSIVE DigitsValue(_)
DigitsValue(s) ==
    IF s = <<>> THEN 0
    ELSE 10 * DigitsValue(SubSeq(s, 1, Len(s) - 1)) + DigitVal(s[Len(s)])
RECURSIVE Pow10(_)
Pow10(k) == IF k = 0 THEN 1 ELSE 10 * Pow10(k - 1)

\* parseFloat: leading blanks skipped, then the longest prefix of the form
\* digits, digits.digits, digits. or .digits; NaN when there is none
ParseFloat(str) ==
    LET s == TrimStart(str)
        ni == DigitRun(s, 1)
        dot == ni < Len(s) /\ s[ni + 1] = "."
        nf == IF dot THEN DigitRun(s, ni + 2) ELSE 0
    IN IF ni + nf = 0 THEN NaN
       ELSE Num(DigitsValue(SubSeq(s, 1, ni)) * Pow10(nf)
                    + DigitsValue(SubSeq(s, ni + 2, ni + 1 + nf)),
                0 - nf)

\* parseInt(str, 10): leading blanks skipped, then the longest digit prefix
ParseInt(str) ==
    LET s == TrimStart(str)
        ni == DigitRun(s, 1)
    IN IF ni = 0 THEN NaN ELSE Num(DigitsValue(SubSeq(s, 1, ni)), 0)

\* Math.round(x * 10^k); NaN stays NaN.  The product is a whole number unless
\* x has more than k decimals, and then it is rounded.  (With the digits of
\* Chars no product lies at a half, where a double could round the other way.)
RoundTimes(x, k) ==
    IF x.nan THEN NaN
    ELSE IF x.exp + k >= 0 THEN Num(x.num, x.exp + k)
    ELSE Num(RoundDiv(x.num, Pow10(0 - (x.exp + k))), 0)

\* x || 0
OrZero(x) == IF x.nan \/ x.num = 0 THEN Num(0, 0) ELSE x

\* parseCount, lines 180-192
parseCount(str) ==
    IF str = <<>> THEN Num(0, 0)
    ELSE LET cleaned == Trim(SelectSeq(str, IsNotComma))
             multiplier == cleaned # <<>> /\ IsSuffix(cleaned[Len(cleaned)])
         IN IF multiplier
            THEN LET num == ParseFloat(SubSeq(cleaned, 1, Len(cleaned) - 1))
                 IN IF cleaned[Len(cleaned)] \in {"K", "k"}
                    THEN RoundTimes(num, 3)
                    ELSE RoundTimes(num, 6)
            ELSE OrZero(ParseInt(cleaned))

InitParse ==
    /\ AggOff
    /\ ExOff
    /\ RankOff
    /\ ReviewOff /\ SlugOff /\ PhotoOff /\ HandlerOff /\ BotOff
    /\ countStr \in Strings
    /\ countRet = [st |-> "pending", val |-> NaN]

\* One call of parseCount; nothing in it throws.
ParseCountCall ==
    /\ countRet.st = "pending"
    /\ countRet' = [st |-> "returned", val |-> parseCount(countStr)]
    /\ UNCHANGED <<outsideParse, countStr>>

NextParse == ParseCountCall

SpecParse == InitParse /\ [][NextParse]_vars


\* ------------------------------------------------- claims: aggregateSocialData
Resolved == aggPc = "done" /\ aggOutcome = "resolved"

\* result.<field> of the platform
ResultField(res, p) ==
    CASE p = "google_maps" -> res.googleMaps
      [] p = "instagram"   -> res.instagram
      [] p = "tiktok"      -> res.tiktok
      [] p = "youtube"     -> res.youtube
      [] p = "website"     -> res.website

Range(s) == { s[i] : i \in 1..Len(s) }

\* followers / subscribers of a record; the website and listing records carry
\* no audience metric
AudienceMetric(p, d) ==
    CASE p \in {"instagram", "tiktok"} -> d.followers
      [] p = "youtube" -> d.subscribers
      [] OTHER -> 0
\* postsCount / videoCount of a record
ContentCount(p, d) ==
    CASE p = "instagram" -> d.postsCount
      [] p \in {"tiktok", "youtube"} -> d.videoCount
      [] OTHER -> 0

Returned(p) == extraction[p].kind \in {"baseline", "data"}
Failed(p) == extraction[p].kind \in {"throw", "baseline"}

\* C1: aggregateSocialData never rejects: whatever subset of sources is
\* requested and however each extractor settles (data, baseline, throw), the
\* call is never rejected and, once it returns, it has resolved with a result.
C1_NeverRejects ==
    /\ aggOutcome # "rejected"
    /\ aggPc = "done" => (aggOutcome = "resolved" /\ Truthy(result))

\* C1 witness: a call returned where one extractor threw, one returned its
\* baseline and one returned data, and a source was not requested.
C1_Witness ==
    /\ Resolved
    /\ \E p \in Platform : extraction[p].kind = "throw"
    /\ \E p \in Platform : extraction[p].kind = "baseline"
    /\ \E p \in Platform : extraction[p].kind = "data"
    /\ \E p \in Platform : ~Requested(req, p)

\* C2: when every requested source fails (throws or returns its baseline), every
\* per-source field of the result is null, activePlatforms is empty and the
\* three roll-ups are 0.
C2_TotalFailureAllAbsent ==
    (Resolved /\ \A p \in Platform : Requested(req, p) => Failed(p))
    => /\ \A p \in Platform : ResultField(result, p) = Null
       /\ result.activePlatforms = <<>>
       /\ result.totalFollowers = 0
       /\ result.totalContentPieces = 0
       /\ result.avgEngagementRate = 0

\* C3: the result is produced only after every launched extraction has settled
\* with its own outcome: at the return no launched extraction is pending, and
\* exactly the requested sources were launched.
C3_MergeAfterAllSettled ==
    aggPc = "done" =>
        \A p \in Platform :
            /\ Requested(req, p) <=> p \in Range(promises)
            /\ Requested(req, p) => /\ extraction[p].st \in {"fulfilled", "rejected"}
                                    /\ extraction[p].kind \in {"throw", "baseline", "data"}
                                    /\ wrapped[p].st = "fulfilled"

\* C3 witness: a call returned after three or more launched extractions
\* settled, one of them by throwing.
C3_Witness ==
    /\ aggPc = "done"
    /\ Len(promises) >= 3
    /\ \E p \in Platform : extraction[p].st = "rejected"
    /\ \E p \in Platform : extraction[p].st = "fulfilled"

\* C4: failure isolation: if A's extractor threw and B's returned a record,
\* the result has A's field null and B's field equal to the record B returned.
C4_FailureIsolated ==
    Resolved =>
        \A a, b \in Platform :
            (extraction[a].kind = "throw" /\ Returned(b))
            => /\ ResultField(result, a) = Null
               /\ ResultField(result, b) = extraction[b].val

\* C4 witness: a result where the first pushed source threw and a later one
\* returned data, and one where a later source threw after data of an earlier.
C4_Witness ==
    /\ Resolved
    /\ extraction["google_maps"].kind = "throw"
    /\ extraction["instagram"].kind = "data"
    /\ extraction["website"].kind = "throw"
    /\ ResultField(result, "instagram") = extraction["instagram"].val

\* C5: a source with an audience metric is in activePlatforms iff it returned
\* a record with followers/subscribers > 0, and a source that returned only
\* its empty baseline is never listed.
C5_ActiveIffPositiveMetric ==
    Resolved =>
        /\ \A p \in {"instagram", "tiktok", "youtube"} :
              p \in Range(result.activePlatforms)
              <=> (Returned(p) /\ AudienceMetric(p, extraction[p].val) > 0)
        /\ \A p \in Platform :
              extraction[p].kind = "baseline" => p \notin Range(result.activePlatforms)

\* C6: exactly one requested source returned positive-metric data and every
\* other requested source failed: activePlatforms has length 1 and
\* totalFollowers is that source's count.
C6_SingleUsableSource ==
    Resolved =>
        \A p \in Platform :
            ( /\ extraction[p].kind = "data"
              /\ AudienceMetric(p, extraction[p].val) > 0
              /\ \A q \in Platform \ {p} : Requested(req, q) => Failed(q) )
            => /\ Len(result.activePlatforms) = 1
               /\ result.totalFollowers = AudienceMetric(p, extraction[p].val)

\* Sum of F over the platforms listed in the sequence
RECURSIVE SumOver(_, _, _)
SumOver(F(_, _), res, plats) ==
    IF plats = <<>> THEN 0
    ELSE F(Head(plats), ResultField(res, Head(plats))) + SumOver(F, res, Tail(plats))

\* C7: totalFollowers is the sum of followers/subscribers over exactly the
\* sources in activePlatforms and totalContentPieces the sum of their content
\* counts; a source that is not active adds nothing to either.
C7_TotalsOverActive ==
    Resolved =>
        /\ result.totalFollowers = SumOver(AudienceMetric, result, result.activePlatforms)
        /\ result.totalContentPieces = SumOver(ContentCount, result, result.activePlatforms)

\* C7 witness: a source returned 0 followers with a positive content count
\* next to an active source with positive content.
C7_Witness ==
    /\ Resolved
    /\ extraction["tiktok"].kind = "data"
    /\ extraction["tiktok"].val.followers = 0
    /\ extraction["tiktok"].val.videoCount > 0
    /\ extraction["instagram"].kind = "data"
    /\ extraction["instagram"].val.followers > 0
    /\ extraction["instagram"].val.postsCount > 0
    /\ result.totalContentPieces = extraction["instagram"].val.postsCount

\* ------------------------------------------------------ claims: the extractors
Settled == eret.st # "pending"

\* The steps that fetch the page / the listing / the channel
FetchSteps == {"goto", "notFound", "maps", "channel"}

\* C8: no extractor throws, and when its fetch fails it returns its empty
\* record built from the handle (every number 0, every list empty), not null.
C8_ExtractorsNeverThrow ==
    /\ eret.st # "threw"
    /\ (eret.st = "returned" /\ failedAt \in FetchSteps)
       => (Truthy(eret.val) /\ eret.val = BaselineOf(ex, handle))

\* Rank of a strategy of scrapeTikTok
Rank(st) ==
    CASE st = "primary"   -> 1
      [] st = "secondary" -> 2
      [] st = "meta"      -> 3
      [] st = "baseline"  -> 4

\* C9: scrapeTikTok attempts its strategies strictly in rank order, and a
\* strategy is attempted iff every earlier one failed to yield the user
\* entity: the secondary blob iff the primary yielded none, the meta tags iff
\* neither blob yielded one.
C9_StrictRankOrder ==
    (ex = "tiktok" /\ Settled) =>
        /\ \A i, j \in 1..Len(attempted) :
              i < j => Rank(attempted[i]) < Rank(attempted[j])
        /\ failedAt = "none" =>
              /\ "primary" \in Range(attempted)
              /\ "secondary" \in Range(attempted) <=> env.primary # "user"
              /\ "meta" \in Range(attempted)
                 <=> (env.primary # "user" /\ env.secondary # "user")

\* The strategies of an extractor in rank order, and the rank of the strategy
\* a failing step belongs to (0: the step is no extraction strategy)
Strategies(e) ==
    CASE e = "tiktok"    -> <<"primary", "secondary", "meta">>
      [] e = "instagram" -> <<"meta", "shared">>
      [] e = "website"   -> <<"page">>
      [] OTHER           -> <<>>
FailedRank(e, step) ==
    CASE e = "tiktok" /\ step = "evalBlob"       -> 1
      [] e = "tiktok" /\ step = "evalMeta"       -> 3
      [] e = "instagram" /\ step = "evalMeta"    -> 1
      [] e = "website" /\ step = "evaluate"      -> 1
      [] OTHER                                   -> 0

\* C10: a failure inside a strategy never leads to the empty baseline while a
\* lower-ranked strategy is untried: when the call settles after a strategy
\* failed, every lower-ranked strategy has been attempted.
C10_NoBaselineBeforeLowerStrategies ==
    (Settled /\ FailedRank(ex, failedAt) > 0) =>
        \A k \in 1..Len(Strategies(ex)) :
            k > FailedRank(ex, failedAt) => Strategies(ex)[k] \in Range(attempted)

\* ---------------------------------------------------- claims: scrapeRestaurant
RestaurantDone == ex = "restaurant" /\ epc = "done" /\ failedAt # "maps"

\* The photo list the photo steps leave, by their own outcome alone
PhotosOf(e, warned) ==
    IF "download" \in warned \/ e.photos = 0 THEN 0
    ELSE IF "analyze" \notin warned /\ e.hero THEN 1 ELSE e.photos

\* C11: once the listing fetch succeeded, scrapeRestaurant returns its record
\* whatever the reviews step and the photo steps do: a failed reviews step
\* leaves reviews empty and the photos as the photo steps made them, a failed
\* analysis or download leaves the reviews as the reviews step made them, and
\* a failed download leaves photos empty.
C11_ReviewsAndPhotosBestEffort ==
    RestaurantDone =>
        /\ eret.st = "returned"
        /\ eret.val.reviews = IF "reviews" \in loc.warned THEN 0 ELSE env.reviews
        /\ eret.val.photos = PhotosOf(env, loc.warned)

C11_Witness ==
    /\ RestaurantDone
    /\ loc.warned = {"reviews"}
    /\ eret.st = "returned" /\ eret.val.photos > 0

\* ------------------------------------------------------ claims: photo ranking
RankDone == rpc \in {"ranked", "done"} /\ ranked # Null

FoodCandidates == { r \in Range(photoResults) : IsFoodPhoto(r) }
NonSkipCandidates == { r \in Range(photoResults) : IsNonSkipped(r) }
BestOf(h, S) == h \in S /\ \A r \in S : r.score <= h.score

\* C12: the hero is a highest-scoring FOOD non-SKIP candidate when there is
\* one (even if a non-food candidate scores higher), else a highest-scoring
\* non-SKIP candidate, else null; it is never a SKIP candidate.
C12_HeroSelection ==
    RankDone =>
        /\ IF FoodCandidates # {} THEN BestOf(ranked.hero, FoodCandidates)
           ELSE IF NonSkipCandidates # {} THEN BestOf(ranked.hero, NonSkipCandidates)
           ELSE ranked.hero = Null
        /\ Truthy(ranked.hero) => ranked.hero.recommendation # "SKIP"

C12_Witness ==
    /\ RankDone
    /\ Truthy(ranked.hero)
    /\ ranked.hero.type = "FOOD"
    /\ \E r \in NonSkipCandidates : r.type # "FOOD" /\ r.score > ranked.hero.score

NonHero == Range(photoResults) \ {ranked.hero}
Qualifying == { r \in NonHero : r.score >= ScoreFloor }
Descending(s) == \A i, j \in 1..Len(s) : i < j => s[i].score >= s[j].score
NoRepeats(s) == Cardinality(Range(s)) = Len(s)

\* C13: the gallery holds the best (up to the cap) non-hero candidates scoring
\* at or above the floor 4.0, in descending score order; every other non-hero
\* candidate is in skipped.
C13_GallerySelection ==
    RankDone =>
        /\ Range(ranked.gallery) \subseteq Qualifying
        /\ NoRepeats(ranked.gallery)
        /\ Len(ranked.gallery) = Min(GalleryCap, Cardinality(Qualifying))
        /\ Descending(ranked.gallery)
        /\ \A g \in Range(ranked.gallery) :
              \A r \in Qualifying \ Range(ranked.gallery) : r.score <= g.score
        /\ Range(ranked.skipped) = NonHero \ Range(ranked.gallery)
        /\ NoRepeats(ranked.skipped)

C13_Witness ==
    /\ RankDone
    /\ Truthy(ranked.hero)
    /\ Len(ranked.gallery) >= 2
    /\ ranked.gallery[1].score > ranked.gallery[2].score
    /\ \E r \in Range(ranked.skipped) :
          r.recommendation # "SKIP" /\ r.score < ScoreFloor

\* C14: the gallery never has more than 5 elements.
C14_GalleryAtMostCap ==
    RankDone => Len(ranked.gallery) <= 5

C14_Witness ==
    /\ RankDone
    /\ Len(ranked.gallery) = 5
    /\ \E r \in Range(ranked.skipped) : r.score >= ScoreFloor

AnalysisFailed(i) == response[i].kind # "json"
PartitionIds ==
    (IF Truthy(ranked.hero) THEN {ranked.hero.id} ELSE {})
        \cup { r.id : r \in Range(ranked.gallery) }
        \cup { r.id : r \in Range(ranked.skipped) }

\* C15: a candidate whose analysis failed is in none of hero, gallery and
\* skipped, every other candidate submitted is in one of them, and
\* totalAnalyzed counts the analyses that succeeded.
C15_FailedCandidateDropped ==
    RankDone =>
        /\ \A i \in 1..Len(ToAnalyze) : AnalysisFailed(i) <=> i \notin PartitionIds
        /\ ranked.totalAnalyzed =
              Cardinality({ i \in 1..Len(ToAnalyze) : ~AnalysisFailed(i) })

C15_Witness ==
    /\ RankDone
    /\ Len(ToAnalyze) > BatchSize
    /\ \E i, j \in 1..BatchSize :
          AnalysisFailed(i) /\ ~AnalysisFailed(j) /\ j \in PartitionIds
    /\ \E k \in (BatchSize + 1)..Len(ToAnalyze) : k \in PartitionIds

\* The multipliers as the claim states them, in tenths
ClaimedSubjectFactor(t) ==
    IF t = "FOOD" THEN 13 ELSE IF t = "AMBIANCE" THEN 11 ELSE 10
ClaimedRecommendationFactor(r) ==
    IF r = "HERO" THEN 12 ELSE IF r = "SKIP" THEN 3 ELSE 10
\* 200 times the claimed product average x subject x recommendation, that is
\* 20 times the product in tenths
ClaimedProduct(r) ==
    (r.quality + r.visualAppeal) * ClaimedSubjectFactor(r.type)
        * ClaimedRecommendationFactor(r.recommendation)

\* C16 as stated: the score of every analysed candidate equals
\* average(quality, visualAppeal) x subject multiplier x recommendation
\* multiplier.
C16_ScoreIsProduct ==
    \A r \in Range(photoResults) : 20 * r.score = ClaimedProduct(r)

\* C16 amended: the score is that product rounded to one decimal place, so it
\* differs from the product by at most 0.05.
C16_ScoreIsRoundedProduct ==
    \A r \in Range(photoResults) :
        /\ 20 * r.score - ClaimedProduct(r) <= 10
        /\ ClaimedProduct(r) - 20 * r.score <= 10

C16_Witness ==
    \E r \in Range(photoResults) :
        /\ r.type = "AMBIANCE" /\ r.recommendation = "HERO"
        /\ 20 * r.score # ClaimedProduct(r)

\* The analyses of the submitted URLs in input order
InputOrdered ==
    SelectSeq([i \in 1..Len(ToAnalyze) |->
                  AnalyzePhoto(i, ToAnalyze[i], response[i])], Truthy)
Swap(s, i, j) == [s EXCEPT ![i] = s[j], ![j] = s[i]]

\* C17: the partitions depend only on the set of scored candidates: ranking
\* the same candidates supplied in another order gives the same hero, gallery
\* and skipped.
C17_RankingIgnoresInputOrder ==
    RankDone =>
        \A i, j \in 1..Len(InputOrdered) :
            RankPhotos(Swap(InputOrdered, i, j)) = ranked

\* C18: the result does not depend on the order in which the analyses of a
\* batch settle: it is the ranking of the analyses taken in input order.
C18_SettleOrderIrrelevant ==
    RankDone =>
        /\ ranked = RankPhotos(InputOrdered)
        /\ photoResults = SortByScore(InputOrdered)

C18_Witness ==
    /\ RankDone
    /\ settleOrder = <<2, 1>>
    /\ Len(photoResults) = 2
    /\ photoResults[1].score = photoResults[2].score
    /\ ranked.hero = photoResults[1]
    /\ ranked.hero.id = 1

\* C19: findBestHeroPhoto returns null only for an empty list; otherwise the
\* URL of the hero of the ranking of at most the first 6 URLs, or the first
\* URL when there is no hero; the URL returned is one of the input.
C19_BestHeroUrl ==
    (caller = "hero" /\ rpc = "done") =>
        /\ heroUrl.st = "returned"
        /\ heroUrl.val = Null <=> Len(urls) = 0
        /\ Len(urls) > 0 =>
              /\ heroUrl.val \in Range(urls)
              /\ Len(ToAnalyze) <= 6
              /\ ranked.totalAnalyzed <= 6
              /\ \A i \in PartitionIds : i <= 6
              /\ heroUrl.val = IF Truthy(ranked.hero) THEN ranked.hero.url
                               ELSE urls[1]

C19_Witness ==
    /\ caller = "hero" /\ rpc = "done"
    /\ Len(urls) > 6
    /\ response[7] = PlainFood
    /\ \A i \in 1..6 : response[i] # PlainFood
    /\ Truthy(ranked.hero)
    /\ heroUrl.val = ranked.hero.url

\* ---------------------------------------------------------- claims: parseCount
HasDigit(s) == \E i \in 1..Len(s) : IsDigit(s[i])
IsInteger(x) == ~x.nan /\ x.exp >= 0
IsValue(x, n) == IsInteger(x) /\ x.num * Pow10(x.exp) = n

\* C20: parseCount never throws and returns an integer for every string:
\* commas are stripped, a trailing K/k multiplies by 1,000 and a trailing M/m
\* by 1,000,000 with rounding, and an empty or non-numeric string (a bare
\* suffix such as "K" or ",K" included) gives 0.
C20_ParseCountTotal ==
    countRet.st \in {"returned", "threw"} =>
        /\ countRet.st = "returned"
        /\ IsInteger(countRet.val)
        /\ ~HasDigit(countStr) => IsValue(countRet.val, 0)
        /\ countStr = <<"1", ",", "2", "3">> => IsValue(countRet.val, 123)
        /\ countStr = <<"1", "2", ".", "3", "K">> => IsValue(countRet.val, 12300)
        /\ countStr = <<"1", ".", "2", "m">> => IsValue(countRet.val, 1200000)

\* ------------------------------------- claims: aggregateSocialData, continued
HandlePresent(p) == ReqHandle(req, p) # ""
Launches(p) == Cardinality({ i \in 1..Len(promises) : promises[i] = p })

\* C26: once the extractors are launched, each source whose handle is present
\* has exactly one extraction and each other source none; a source that was
\* not requested has a null field in the result and is not in activePlatforms.
C26_OneLaunchPerRequestedSource ==
    aggPc \in {"awaiting", "done"} =>
        \A p \in Platform :
            /\ Launches(p) = IF HandlePresent(p) THEN 1 ELSE 0
            /\ extraction[p].st = "idle" <=> ~HandlePresent(p)
            /\ (Resolved /\ ~HandlePresent(p))
               => /\ ResultField(result, p) = Null
                  /\ p \notin Range(result.activePlatforms)

C26_Witness ==
    /\ Resolved
    /\ HandlePresent("instagram") /\ HandlePresent("website")
    /\ ~HandlePresent("google_maps") /\ ~HandlePresent("tiktok")
    /\ Launches("instagram") = 1
    /\ Len(promises) = 2
    /\ Len(result.activePlatforms) = 2

\* What a source's own outcome contributes, whenever it settled
OutcomeField(p) == IF Returned(p) THEN extraction[p].val ELSE Null
OutcomeActive(p) ==
    /\ Returned(p)
    /\ p \in {"instagram", "tiktok", "youtube"}
       => AudienceMetric(p, extraction[p].val) > 0
BlockOrder == <<"instagram", "tiktok", "youtube", "website", "google_maps">>
RECURSIVE OutcomeSum(_, _)
OutcomeSum(F(_, _), plats) ==
    IF plats = <<>> THEN 0
    ELSE (IF OutcomeActive(Head(plats))
          THEN F(Head(plats), extraction[Head(plats)].val) ELSE 0)
         + OutcomeSum(F, Tail(plats))

\* C27: the result is a function of the per-source outcomes alone, whatever
\* the order in which the extractions settled: each field is its source's
\* record (null for a thrown one), activePlatforms lists the active sources in
\* the fixed order instagram, tiktok, youtube, website, google_maps, and the
\* roll-ups are the sums over them.
C27_SettleOrderIndependent ==
    Resolved =>
        /\ \A p \in Platform : ResultField(result, p) = OutcomeField(p)
        /\ result.activePlatforms = SelectSeq(BlockOrder, OutcomeActive)
        /\ result.totalFollowers = OutcomeSum(AudienceMetric, BlockOrder)
        /\ result.totalContentPieces = OutcomeSum(ContentCount, BlockOrder)
        /\ result.avgEngagementRate =
              IF OutcomeActive("instagram")
              THEN extraction["instagram"].val.engagementRate ELSE 0

C27_Witness ==
    /\ Resolved
    /\ Len(promises) = 5
    /\ result.activePlatforms = <<"instagram", "youtube", "google_maps">>
    /\ extraction["tiktok"].kind = "data"
    /\ extraction["website"].kind = "throw"
    /\ result.avgEngagementRate > 0

\* ------------------------------------------------ claims: fetches and item caps
\* C28: every call of scrapeInstagram, scrapeTikTok, scrapeYouTube or
\* scrapeWebsite issues exactly one fetch, whether it succeeds, falls back or
\* fails.
C28_ExactlyOneFetch ==
    (ex \in {"instagram", "tiktok", "youtube", "website"} /\ Settled)
        => fetches = 1

\* The recent content items of a record returned by a social extractor
RecentItems(e, rec) ==
    IF e = "instagram" THEN rec.recentPosts ELSE rec.recentVideos

MaxContainers == 3

\* `if (rating < 4) return`, `if (text.length < 20) return`,
\* `text.substring(0, 300)`
MinStars == 4
MinTextLength == 20
MaxTextLength == 300

\* A review container as the extraction reads it: the rating is the first
\* digit of the star element's aria-label (0 without such an element or
\* digit), the text is the trimmed text of the text element ('' without
\* one); a text is held as its length.
ContainerRatings == {3, 4, 9}
ContainerTexts == {0, MinTextLength - 1, MinTextLength, MaxTextLength, MaxTextLength + 1}
ReviewContainer == [rating : ContainerRatings, text : ContainerTexts]
ContainerLists ==
    UNION {[1..n -> ReviewContainer] : n \in 0..MaxContainers}

\* The text kept whole.
ReviewTextWhole(len) == len

\* text.substring(0, 300)
ReviewText(len) == Min(len, MaxTextLength)

\* Lines 95-138: the forEach over the containers; `index` is 0-based
RECURSIVE ExtractReviews(_, _, _, _)
ExtractReviews(cs, index, maxReviews, results) ==
    IF index >= Len(cs) THEN results
    ELSE LET container == cs[index + 1]
         IN IF index >= maxReviews
            THEN ExtractReviews(cs, index + 1, maxReviews, results)
            ELSE IF container.rating < MinStars
            THEN ExtractReviews(cs, index + 1, maxReviews, results)
            ELSE IF container.text < MinTextLength
            THEN ExtractReviews(cs, index + 1, maxReviews, results)
            ELSE ExtractReviews(cs, index + 1, maxReviews,
                     Append(results, [container |-> index + 1,
                                      rating |-> container.rating,
                                      text |-> ReviewText(container.text)]))

\* reviews.slice(0, limit)
SliceTo(s, n) == SubSeq(s, 1, Min(Len(s), n))

\* The limit passed: 1, the 8 of scrapeRestaurant (index.ts line 80)
Limits == {1, 8}

InitReviews ==
    /\ AggOff /\ ExOff /\ RankOff
    /\ ParseOff /\ SlugOff /\ PhotoOff /\ HandlerOff /\ BotOff
    /\ reviewContainers \in ContainerLists
    /\ limit \in Limits
    /\ reviewsRet = [st |-> "pending", val |-> <<>>]

\* scrapeReviews, lines 18-153: the page is rendered and the reviews are
\* extracted and returned, or a step throws and the call rejects (the
\* finally block only closes the browser).
ScrapeReviews(ok) ==
    /\ reviewsRet.st = "pending"
    /\ reviewsRet' =
           IF ok
           THEN [st |-> "returned",
                 val |-> SliceTo(ExtractReviews(reviewContainers, 0, limit, <<>>), limit)]
           ELSE [st |-> "threw", val |-> <<>>]
    /\ UNCHANGED <<outsideReview, reviewContainers, limit>>

NextReviews == \E ok \in BOOLEAN : ScrapeReviews(ok)

SpecReviews == InitReviews /\ [][NextReviews]_vars

\* -------------------------------------------------------- claims: scrapeReviews
\* C30: every review returned by scrapeReviews has a rating of at least 4 and
\* a text of 20 to 300 characters, and there are at most `limit` of them.
C30_ReviewsFilteredAndCapped ==
    reviewsRet.st = "returned" =>
        /\ Len(reviewsRet.val) <= limit
        /\ \A i \in 1..Len(reviewsRet.val) :
               /\ reviewsRet.val[i].rating >= 4
               /\ reviewsRet.val[i].text >= 20
               /\ reviewsRet.val[i].text <= 300

\* More qualifying containers than the limit, one of them with a long text
C30_Witness ==
    /\ reviewsRet.st = "returned"
    /\ limit = 1
    /\ Len(reviewContainers) > 1
    /\ \A i \in 1..Len(reviewContainers) :
           reviewContainers[i].rating >= 4 /\ reviewContainers[i].text > 300
    /\ Len(reviewsRet.val) = 1

\* ================================================== index.ts: generateSlug
MaxNameLen == 4

\* Characters outside ASCII, by code point: a precomposed letter with an
\* accent, the combining accent its decomposition holds, a letter of
\* another script
LatinSmallEAcute == "U+00E9"
CombiningAcute == "U+0301"
Kanji == "U+5BFF"
NameChars == {"a", "Z", "9", "-", " ", LatinSmallEAcute, Kanji}
Names == UNION {[1..n -> NameChars] : n \in 0..MaxNameLen}

\* [a-z0-9]
AsciiLowerOrDigit ==
    {"a", "b", "c", "d", "e", "f", "g", "h", "i", "j", "k", "l", "m", "n", "o",
     "p", "q", "r", "s", "t", "u", "v", "w", "x", "y", "z",
     "0", "1", "2", "3", "4", "5", "6", "7", "8", "9"}
IsAlnum(c) == c \in AsciiLowerOrDigit

\* toLowerCase on one character of the alphabets used here
LowerOf(c) ==
    CASE c = "Z" -> "z"
      [] c = "P" -> "p"
      [] c = "L" -> "l"
      [] OTHER   -> c
ToLowerCase(s) == [i \in 1..Len(s) |-> LowerOf(s[i])]

\* normalize('NFD'): a precomposed letter becomes base letter + combining mark
RECURSIVE NormalizeNFD(_)
NormalizeNFD(s) ==
    IF s = <<>> THEN <<>>
    ELSE (IF Head(s) = LatinSmallEAcute THEN <<"e", CombiningAcute>> ELSE <<Head(s)>>)
             \o NormalizeNFD(Tail(s))

\* replace(/[\u0300-\u036f]/g, '')
IsNotCombining(c) == c # CombiningAcute
StripMarks(s) == SelectSeq(s, IsNotCombining)

\* s without its longest prefix of characters outside [a-z0-9]
RECURSIVE DropNonAlnum(_)
DropNonAlnum(s) ==
    IF s = <<>> \/ IsAlnum(Head(s)) THEN s ELSE DropNonAlnum(Tail(s))

\* replace(/[^a-z0-9]+/g, '-')
RECURSIVE ReplaceRuns(_)
ReplaceRuns(s) ==
    IF s = <<>> THEN <<>>
    ELSE IF IsAlnum(Head(s)) THEN <<Head(s)>> \o ReplaceRuns(Tail(s))
    ELSE <<"-">> \o ReplaceRuns(DropNonAlnum(Tail(s)))

\* replace(/-+/g, '-')
RECURSIVE CollapseHyphens(_)
CollapseHyphens(s) ==
    IF Len(s) < 2 THEN s
    ELSE IF s[1] = "-" /\ s[2] = "-" THEN CollapseHyphens(Tail(s))
    ELSE <<Head(s)>> \o CollapseHyphens(Tail(s))

\* replace(/^-|-$/g, ''): one hyphen off the start, one off the end
TrimHyphens(s) ==
    LET t == IF s # <<>> /\ Head(s) = "-" THEN Tail(s) ELSE s
    IN IF t # <<>> /\ t[Len(t)] = "-" THEN SubSeq(t, 1, Len(t) - 1) ELSE t

\* generateSlug, lines 38-46
generateSlug(name) ==
    TrimHyphens(CollapseHyphens(ReplaceRuns(StripMarks(NormalizeNFD(ToLowerCase(name))))))

InitSlug ==
    /\ AggOff /\ ExOff /\ RankOff
    /\ ParseOff /\ ReviewOff /\ PhotoOff /\ HandlerOff /\ BotOff
    /\ slugName \in Names
    /\ slugRet = [st |-> "pending", val |-> <<>>]
    /\ slugBack = [st |-> "pending", val |-> <<>>]

\* One call of generateSlug; nothing in it throws.
GenerateSlugCall ==
    /\ slugRet.st = "pending"
    /\ slugRet' = [st |-> "returned", val |-> generateSlug(slugName)]
    /\ UNCHANGED <<outsideSlug, slugName, slugBack>>

\* generateSlug called on the slug it returned
GenerateSlugAgain ==
    /\ slugRet.st = "returned"
    /\ slugBack.st = "pending"
    /\ slugBack' = [st |-> "returned", val |-> generateSlug(slugRet.val)]
    /\ UNCHANGED <<outsideSlug, slugName, slugRet>>

NextSlug == GenerateSlugCall \/ GenerateSlugAgain

SpecSlug == InitSlug /\ [][NextSlug]_vars

\* --------------------------------------------------------- claims: generateSlug
\* ^[a-z0-9]+(-[a-z0-9]+)*$
MatchesSlugPattern(s) ==
    /\ s # <<>>
    /\ \A i \in 1..Len(s) : IsAlnum(s[i]) \/ s[i] = "-"
    /\ s[1] # "-" /\ s[Len(s)] # "-"
    /\ \A i \in 1..(Len(s) - 1) : ~(s[i] = "-" /\ s[i + 1] = "-")

\* generateSlug applied to its own result gives that result
SlugIdempotent ==
    slugBack.st = "returned" => slugBack.val = slugRet.val

\* C21: generateSlug is idempotent and its result for every input matches
\* ^[a-z0-9]+(-[a-z0-9]+)*$: lowercase ASCII letters and digits, separated
\* by single hyphens, none at either end.
C21_SlugIdempotentAndWellFormed ==
    /\ SlugIdempotent
    /\ slugRet.st = "returned" => MatchesSlugPattern(slugRet.val)

\* ================================ index.ts, steps 3 and 4; photo-downloader.ts
MaxPhotos == 3

\* The maxPhotos passed to downloadAndProcessPhotos (index.ts line 122)
DownloadMax == 6

\* What analysing a candidate gives here: two photos fit for the page, one
\* to skip, and a failure
PhotoReplies == {PlainFood, BestAmbiance, SkippedFood, [kind |-> "badJson"]}

\* analyzeAndRankPhotos as a function: the analyses of the first max URLs
\* that are not null, in the order of the URLs, ranked
AnalyzeAndRank(us, replies, max) ==
    LET all == [i \in 1..Min(Len(us), max) |-> AnalyzePhoto(i, us[i], replies[i])]
    IN RankPhotos(SelectSeq(all, Truthy))

\* The description of an analysis: '' for the URL drawn to have none
Description(a) == [describes |-> a.url, empty |-> a.url = Url(blankUrl)]
\* `Photo ${n}`
Label(n) == [label |-> n]

\* downloadAndProcessPhotos, lines 35-88: the loop over urls.slice(0, maxPhotos);
\* a URL that fails is logged and left out
RECURSIVE DownloadLoop(_, _, _, _)
DownloadLoop(us, k, failed, processed) ==
    IF k > Len(us) THEN processed
    ELSE IF us[k].href \in failed
    THEN DownloadLoop(us, k + 1, failed, processed)
    ELSE DownloadLoop(us, k + 1, failed,
             Append(processed, [originalUrl |-> us[k],
                                alt |-> Label(Len(processed) + 1)]))

DownloadAndProcessPhotos(us, maxPhotos, failed) ==
    DownloadLoop(SubSeq(us, 1, Min(Len(us), maxPhotos)), 1, failed, <<>>)

\* index.ts lines 108-116: hero first, then the gallery, when there is a hero
OrderedUrls(rk, us) ==
    IF rk # Null /\ rk.hero # Null
    THEN <<rk.hero.url>> \o [i \in 1..Len(rk.gallery) |-> rk.gallery[i].url]
    ELSE us

\* index.ts lines 126-134: the alt text of the photo at `index` (0-based).
\* gallery[index - 1] is undefined past the end of the gallery and
\* `analysis?.description || label` takes the label for a null or undefined
\* analysis and for an empty description.
AltAt(rk, index) ==
    LET analysis == IF index = 0 THEN rk.hero
                    ELSE IF index - 1 < Len(rk.gallery) THEN rk.gallery[index]
                    ELSE Null
    IN IF analysis = Null \/ Description(analysis).empty
       THEN Label(index + 1)
       ELSE Description(analysis)

AddMetadata(rk, ps) ==
    IF rk = Null THEN ps
    ELSE [k \in 1..Len(ps) |-> [ps[k] EXCEPT !.alt = AltAt(rk, k - 1)]]

InitPhotos ==
    /\ AggOff /\ ExOff /\ RankOff
    /\ ParseOff /\ ReviewOff /\ SlugOff /\ HandlerOff /\ BotOff
    /\ \E n \in 0..MaxPhotos :
           /\ mapsPhotos = [i \in 1..n |-> Url(i)]
           /\ vision \in [1..n -> PhotoReplies]
           /\ blankUrl \in 0..n
           /\ failedDownloads \in SUBSET (1..n)
    /\ stepsOk \in [analyze : BOOLEAN, mkdir : BOOLEAN]
    /\ ppc = "analyze"
    /\ rankedPhotos = Null
    /\ photos = <<>>

\* index.ts lines 87-99: step 3, best effort
P_Analyze ==
    /\ ppc = "analyze"
    /\ rankedPhotos' =
           IF Len(mapsPhotos) > 0 /\ stepsOk.analyze
           THEN AnalyzeAndRank(mapsPhotos, vision, RestaurantMaxToAnalyze)
           ELSE Null
    /\ ppc' = "download"
    /\ UNCHANGED <<outsidePhoto, mapsPhotos, vision, blankUrl, failedDownloads,
                   stepsOk, photos>>

\* index.ts lines 101-140: step 4, best effort; when mkdir throws the catch
\* block leaves photos empty
P_Download ==
    /\ ppc = "download"
    /\ photos' =
           IF Len(mapsPhotos) > 0 /\ stepsOk.mkdir
           THEN AddMetadata(rankedPhotos,
                    DownloadAndProcessPhotos(OrderedUrls(rankedPhotos, mapsPhotos),
                                             DownloadMax, failedDownloads))
           ELSE <<>>
    /\ ppc' = "done"
    /\ UNCHANGED <<outsidePhoto, mapsPhotos, vision, blankUrl, failedDownloads,
                   stepsOk, rankedPhotos>>

NextPhotos == P_Analyze \/ P_Download

SpecPhotos == InitPhotos /\ [][NextPhotos]_vars

\* ------------------------------------------------ claims: the photos returned
\* The analyses the ranking holds
AnalysesOf(rk) ==
    IF rk = Null THEN {}
    ELSE (IF rk.hero = Null THEN {} ELSE {rk.hero})
             \cup Range(rk.gallery) \cup Range(rk.skipped)

\* C22: the alt text of every photo returned is the description of the
\* analysis of the photo's own source URL when there is such an analysis,
\* and the label of its position otherwise.
C22_AltDescribesOwnUrl ==
    ppc = "done" =>
        \A k \in 1..Len(photos) :
            LET own == {a \in AnalysesOf(rankedPhotos) : a.url = photos[k].originalUrl}
            IN IF own = {} THEN photos[k].alt = Label(k)
               ELSE \A a \in own : photos[k].alt = Description(a)

\* ============================================================== bot/handler.ts
MaxMenu == 2

\* A name is a sequence of characters, every other text an opaque string;
\* a text property that is undefined is held as NoText, an object property
\* that is undefined as Null, a parameter that is undefined is absent from
\* the params record.
NoText == "<undefined>"
ItemNames == {<<"P", "i">>, <<"p", "a">>, <<"L", "a">>}
Queries == {<<>>, <<"p">>, <<"P">>, <<"a">>, <<"l", "A">>, <<"i", "p">>}
MenuItem == [name : ItemNames, price : {"18$"}, description : {NoText}]
Menus == UNION {[1..n -> MenuItem] : n \in 0..MaxMenu}
OldEvent == [title |-> "old", description |-> "old", date |-> "old"]

\* The PageData of the caller; its menuHighlights is the array at reference 1
PageDatas ==
    [heroTitle : {"old"}, tagline : {"old"}, description : {"old"},
     ctaText : {"old"}, menuHighlights : {1}, event : {Null, OldEvent},
     notice : {NoText, "old"}, primaryColor : {"old"}, accentColor : {"old"},
     hours : {"old"}]

NoParams == <<>>
ActionsNamed(n, ps) == [action : {n}, params : ps, confirmation : {"done"}]
\* The InterpretedAction values a call is made with: every case of the
\* switch, a name the switch does not know, and for the menu cases also the
\* params without a name.
Actions ==
    ActionsNamed("update_hero_title", [title : {"new"}])
    \cup ActionsNamed("update_tagline", [tagline : {"new"}])
    \cup ActionsNamed("update_description", [description : {"new"}])
    \cup ActionsNamed("update_cta", [text : {"new"}])
    \cup ActionsNamed("add_menu_item",
             [name : ItemNames, price : {"12$"}, description : {"new"}])
    \cup ActionsNamed("remove_menu_item", [name : Queries] \cup {NoParams})
    \cup ActionsNamed("update_menu_item",
             [name : {<<"p">>, <<"L", "A">>}]
             \cup [name : {<<"p">>, <<"L", "A">>}, newName : {<<>>, <<"i">>}]
             \cup [name : {<<"p">>}, newPrice : {"30$"}, newDescription : {"new"}]
             \cup {NoParams})
    \cup ActionsNamed("add_event",
             [title : {"new"}, description : {"new"}, date : {"new"}])
    \cup ActionsNamed("remove_event", {NoParams})
    \cup ActionsNamed("update_notice", [text : {"new"}])
    \cup ActionsNamed("remove_notice", {NoParams})
    \cup ActionsNamed("update_colors",
             {NoParams} \cup [primaryColor : {"", "new"}]
             \cup [accentColor : {"new"}]
             \cup [primaryColor : {"new"}, accentColor : {"", "new"}])
    \cup ActionsNamed("update_hours", [hours : {"new"}])
    \cup ActionsNamed("update_photo", {NoParams} \cup [type : {"", "hero", "gallery"}])
    \cup ActionsNamed("request_regenerate", {NoParams})
    \cup ActionsNamed("unknown", [originalMessage : {"test"}])
    \cup ActionsNamed("delete_page", {NoParams})

\* String.prototype.includes
Includes(s, sub) ==
    \E i \in 0..(Len(s) - Len(sub)) : SubSeq(s, i + 1, i + Len(sub)) = sub

\* params[f] || fallback, for a text and for a name
TextOr(p, f, fallback) ==
    IF f \in DOMAIN p /\ p[f] # "" THEN p[f] ELSE fallback
NameOr(p, f, fallback) ==
    IF f \in DOMAIN p /\ p[f] # <<>> THEN p[f] ELSE fallback

\* A new array on the heap
NewArray(heap, contents) ==
    [heap |-> Append(heap, contents), ref |-> Len(heap) + 1]

\* The item pushed onto the array the caller's data holds.
AddMenuItemInPlace(heap, ref, item) ==
    [heap |-> [heap EXCEPT ![ref] = Append(@, item)], ref |-> ref]

\* Lines 50-57: [...updatedData.menuHighlights, item]
AddMenuItem(heap, ref, item) == NewArray(heap, Append(heap[ref], item))

\* Only the first matching item removed.
RECURSIVE DropFirstMatch(_, _)
DropFirstMatch(menu, itemName) ==
    IF menu = <<>> THEN <<>>
    ELSE IF Includes(ToLowerCase(Head(menu).name), itemName) THEN Tail(menu)
    ELSE <<Head(menu)>> \o DropFirstMatch(Tail(menu), itemName)
RemoveFirstMenuItem(heap, ref, itemName) ==
    NewArray(heap, DropFirstMatch(heap[ref], itemName))

\* Lines 62-64: menuHighlights.filter(item => !item.name.toLowerCase().includes(itemName))
RemoveMenuItem(heap, ref, itemName) ==
    LET Stays(item) == ~Includes(ToLowerCase(item.name), itemName)
    IN NewArray(heap, SelectSeq(heap[ref], Stays))

\* Lines 68-77: menuHighlights.map(...)
UpdateMenuItem(heap, ref, p) ==
    LET menu == heap[ref]
        Updated(item) ==
            IF Includes(ToLowerCase(item.name), ToLowerCase(p.name))
            THEN [name |-> NameOr(p, "newName", item.name),
                  price |-> TextOr(p, "newPrice", item.price),
                  description |-> TextOr(p, "newDescription", item.description)]
            ELSE item
    IN NewArray(heap, [i \in 1..Len(menu) |-> Updated(menu[i])])

\* The type taken as given.
PhotoTypeNoDefault(p) == IF "type" \in DOMAIN p THEN p.type ELSE NoText

\* Line 115: action.params.type || 'hero'
PhotoTypeOf(p) == TextOr(p, "type", "hero")

\* Lines 28-144: the copy and the switch.  A case leaves the switch (break),
\* returns a result at once, or throws (a method called on an undefined name).
HandlerSwitch(a, d, heap) ==
    LET p == a.params
        ref == d.menuHighlights
        Break(u, h) == [exit |-> "break", updatedData |-> u, heap |-> h]
        Return(res) == [exit |-> "return", result |-> res, heap |-> heap]
        Throw == [exit |-> "throw", heap |-> heap]
        Moved(n) == Break([d EXCEPT !.menuHighlights = n.ref], n.heap)
    IN CASE a.action = "update_hero_title" ->
                Break([d EXCEPT !.heroTitle = p.title], heap)
         [] a.action = "update_tagline" ->
                Break([d EXCEPT !.tagline = p.tagline], heap)
         [] a.action = "update_description" ->
                Break([d EXCEPT !.description = p.description], heap)
         [] a.action = "update_cta" ->
                Break([d EXCEPT !.ctaText = p.text], heap)
         [] a.action = "add_menu_item" ->
                Moved(AddMenuItem(heap, ref,
                          [name |-> p.name, price |-> p.price,
                           description |-> p.description]))
         [] a.action = "remove_menu_item" ->
                IF "name" \notin DOMAIN p THEN Throw
                ELSE Moved(RemoveMenuItem(heap, ref, ToLowerCase(p.name)))
         [] a.action = "update_menu_item" ->
                IF "name" \notin DOMAIN p
                THEN IF heap[ref] = <<>> THEN Moved(NewArray(heap, <<>>)) ELSE Throw
                ELSE Moved(UpdateMenuItem(heap, ref, p))
         [] a.action = "add_event" ->
                Break([d EXCEPT !.event = [title |-> p.title,
                                            description |-> p.description,
                                            date |-> p.date]], heap)
         [] a.action = "remove_event" ->
                Break([d EXCEPT !.event = Null], heap)
         [] a.action = "update_notice" ->
                Break([d EXCEPT !.notice = p.text], heap)
         [] a.action = "remove_notice" ->
                Break([d EXCEPT !.notice = NoText], heap)
         [] a.action = "update_colors" ->
                Break([d EXCEPT !.primaryColor = TextOr(p, "primaryColor", @),
                                !.accentColor = TextOr(p, "accentColor", @)], heap)
         [] a.action = "update_hours" ->
                Break([d EXCEPT !.hours = p.hours], heap)
         [] a.action = "update_photo" ->
                Return([success |-> TRUE,
                        message |-> IF PhotoTypeOf(p) = "hero" THEN "photo: le header"
                                    ELSE "photo: la galerie",
                        updatedData |-> d, requiresPhoto |-> TRUE,
                        photoType |-> PhotoTypeOf(p)])
         [] a.action = "request_regenerate" ->
                Return([success |-> TRUE, message |-> "regenerate?", updatedData |-> d])
         [] a.action = "unknown" ->
                Return([success |-> FALSE, message |-> a.confirmation, updatedData |-> d])
         [] OTHER ->
                Return([success |-> FALSE, message |-> "Action non reconnue",
                        updatedData |-> d])

\* The value of a PageData: its menu read through the reference
Deref(d, heap) == [d EXCEPT !.menuHighlights = heap[@]]

\* Lines 155-160: the result of the catch block
HandlerError == [success |-> FALSE, message |-> "Une erreur est survenue"]

InitHandler ==
    /\ AggOff /\ ExOff /\ RankOff
    /\ ParseOff /\ ReviewOff /\ SlugOff /\ PhotoOff /\ BotOff
    /\ currentData \in PageDatas
    /\ \E menu \in Menus : arrays = <<menu>>
    /\ lastAction = Null
    /\ hret = [st |-> "idle"]
    /\ disk = [data |-> Null, calls |-> 0]

\* handleAction, lines 20-162, called with the caller's data: the switch,
\* then savePageData (unnamed/part_010 lines 90-97: it writes the data and
\* changes nothing in it) and the result; a throw of the switch or of
\* savePageData ends in the catch block.  The caller keeps no earlier
\* result: the arrays of one are gone from the heap.  disk holds what this
\* call wrote and how often it called savePageData.
HandleAction(a, saveOk) ==
    /\ hret.st # "off"
    /\ LET s == HandlerSwitch(a, currentData, SubSeq(arrays, 1, 1))
       IN /\ arrays' = s.heap
          /\ CASE s.exit = "return" ->
                      /\ hret' = [st |-> "returned", val |-> s.result]
                      /\ disk' = [data |-> Null, calls |-> 0]
               [] s.exit = "throw" ->
                      /\ hret' = [st |-> "returned", val |-> HandlerError]
                      /\ disk' = [data |-> Null, calls |-> 0]
               [] s.exit = "break" /\ saveOk ->
                      /\ hret' = [st |-> "returned",
                                  val |-> [success |-> TRUE, message |-> a.confirmation,
                                           updatedData |-> s.updatedData]]
                      /\ disk' = [data |-> Deref(s.updatedData, s.heap), calls |-> 1]
               [] s.exit = "break" /\ ~saveOk ->
                      /\ hret' = [st |-> "returned", val |-> HandlerError]
                      /\ disk' = [data |-> Null, calls |-> 1]
    /\ lastAction' = a
    /\ UNCHANGED <<outsideHandler, currentData>>

NextHandler == \E a \in Actions, saveOk \in BOOLEAN : HandleAction(a, saveOk)

SpecHandler == InitHandler /\ [][NextHandler]_vars

\* --------------------------------------------------------- claims: handleAction
\* C23: no call of handleAction changes the data passed to it: the caller's
\* object and the menu array it holds are after the call what they were
\* before, whatever the action.
C23_CurrentDataNotMutated ==
    [][/\ currentData' = currentData
       /\ arrays'[currentData.menuHighlights] = arrays[currentData.menuHighlights]]_vars

\* An item was added: the result holds a longer menu than the caller's data
C23_Witness ==
    /\ hret.st = "returned"
    /\ lastAction.action = "add_menu_item"
    /\ hret.val.success
    /\ hret.val.updatedData.menuHighlights # currentData.menuHighlights
    /\ Len(arrays[hret.val.updatedData.menuHighlights])
           = Len(arrays[currentData.menuHighlights]) + 1

\* The cases of the switch that go on to savePageData
SavingActions ==
    {"update_hero_title", "update_tagline", "update_description", "update_cta",
     "add_menu_item", "remove_menu_item", "update_menu_item", "add_event",
     "remove_event", "update_notice", "remove_notice", "update_colors",
     "update_hours"}

\* C24: an 'unknown' or unrecognised action gives success = false with the
\* input data as updatedData and no call of savePageData; 'update_photo'
\* gives requiresPhoto = true with the requested photo type, 'hero' when
\* none is requested, and no call of savePageData either.
C24_NoPersistOnUnknownOrPhoto ==
    hret.st = "returned" =>
        /\ lastAction.action \notin SavingActions \cup {"update_photo", "request_regenerate"}
               => /\ hret.val.success = FALSE
                  /\ "updatedData" \in DOMAIN hret.val
                  /\ Deref(hret.val.updatedData, arrays) = Deref(currentData, arrays)
                  /\ disk.calls = 0
        /\ lastAction.action = "update_photo"
               => /\ hret.val.requiresPhoto = TRUE
                  /\ hret.val.photoType =
                         (IF "type" \in DOMAIN lastAction.params
                             /\ lastAction.params.type \in {"hero", "gallery"}
                          THEN lastAction.params.type ELSE "hero")
                  /\ disk.calls = 0

\* update_photo without a type: the default is returned
C24_Witness ==
    /\ hret.st = "returned"
    /\ lastAction.action = "update_photo"
    /\ lastAction.params = NoParams
    /\ hret.val.photoType = "hero"
    /\ disk.calls = 0

\* s contains q as a substring, letter case ignored
ContainsIgnoringCase(s, q) ==
    \E off \in 0..(Len(s) - Len(q)) :
        \A j \in 1..Len(q) : LowerOf(s[off + j]) = LowerOf(q[j])
\* The k-th smallest element of a set of numbers
KthSmallest(S, k) == CHOOSE i \in S : Cardinality({j \in S : j <= i}) = k

\* C25: after remove_menu_item the menu returned holds exactly the original
\* items whose name does not contain the given name, letter case ignored,
\* in their original order.
C25_RemovesEveryMatch ==
    (/\ hret.st = "returned"
     /\ lastAction.action = "remove_menu_item"
     /\ "name" \in DOMAIN lastAction.params
     /\ "updatedData" \in DOMAIN hret.val) =>
        LET menu == arrays[currentData.menuHighlights]
            returned == arrays[hret.val.updatedData.menuHighlights]
            kept == {i \in 1..Len(menu) :
                        ~ContainsIgnoringCase(menu[i].name, lastAction.params.name)}
        IN /\ Len(returned) = Cardinality(kept)
           /\ \A k \in 1..Len(returned) : returned[k] = menu[KthSmallest(kept, k)]

\* Two items match a name given in the other letter case, and both are gone
C25_Witness ==
    /\ hret.st = "returned"
    /\ lastAction.action = "remove_menu_item"
    /\ "name" \in DOMAIN lastAction.params
    /\ lastAction.params.name = <<"P">>
    /\ "updatedData" \in DOMAIN hret.val
    /\ Len(arrays[currentData.menuHighlights]) = 2
    /\ \A i \in 1..2 : arrays[currentData.menuHighlights][i].name = <<"p", "a">>
    /\ arrays[hret.val.updatedData.menuHighlights] = <<>>

\* ------------------------------------------- claims: batches of analyzeAndRankPhotos
\* C31: at most 3 analyses are in flight at a time, the batches are taken in
\* input order (what has been started is always a prefix of the list, what
\* is in flight lies in the current batch), and an analysis is started only
\* when none of an earlier batch is still in flight.
C31_BatchesOneAtATime ==
    [][/\ Cardinality(inFlight') <= 3
       /\ \E n \in 0..Len(urls) : fetched' = 1..n
       /\ inFlight' \subseteq (batchStart' + 1)..(batchStart' + 3)
       /\ fetched' # fetched => inFlight = {}]_vars

\* The second batch is in flight, three analyses at once
C31_Witness ==
    /\ rpc = "await"
    /\ batchStart = 3
    /\ Cardinality(inFlight) = 3
    /\ \E k \in 1..3 : response[k].kind # "json"

\* The candidates of a ranking, whatever their part
RankedCandidates(rk) ==
    (IF rk.hero = Null THEN {} ELSE {rk.hero})
        \cup Range(rk.gallery) \cup Range(rk.skipped)

\* C32: only the first maxToAnalyze URLs are analysed: no analysis is
\* started for a URL beyond them, totalAnalyzed is at most
\* min(urls.length, maxToAnalyze), and hero, gallery and skipped hold none
\* of the later URLs.
C32_OnlyPrefixAnalysed ==
    LET prefix == 1..Min(Len(urls), maxToAnalyze)
    IN /\ fetched \subseteq prefix
       /\ ranked # Null =>
              /\ ranked.totalAnalyzed <= Min(Len(urls), maxToAnalyze)
              /\ \A c \in RankedCandidates(ranked) : c.url.href \in prefix

\* More URLs than are analysed, and every analysis succeeded
C32_Witness ==
    /\ ranked # Null
    /\ Len(urls) > maxToAnalyze
    /\ maxToAnalyze > 0
    /\ ranked.totalAnalyzed = maxToAnalyze
    /\ fetched = 1..maxToAnalyze

\* ------------------------------------------------- claims: avgEngagementRate
\* The sources of a result whose record carries an engagement rate
ExposingRate(res) ==
    {p \in Platform : /\ ResultField(res, p) # Null
                      /\ "engagementRate" \in DOMAIN ResultField(res, p)}
RECURSIVE SumOfRates(_, _)
SumOfRates(res, S) ==
    IF S = {} THEN 0
    ELSE LET p == CHOOSE q \in S : TRUE
         IN ResultField(res, p).engagementRate + SumOfRates(res, S \ {p})

\* C33: avgEngagementRate is the mean, rounded to two decimals, of the
\* engagement rates of the sources whose record has one, and 0 when there is
\* none; the other sources do not enter it.
C33_AvgOverExposingSources ==
    Resolved =>
        LET S == ExposingRate(result)
        IN result.avgEngagementRate =
               IF S = {} THEN 0
               ELSE RoundDiv(SumOfRates(result, S), Cardinality(S))

\* Instagram has a rate, and TikTok and YouTube are active beside it
C33_Witness ==
    /\ Resolved
    /\ result.instagram # Null /\ result.instagram.engagementRate > 0
    /\ result.tiktok # Null /\ result.tiktok.followers > 0
    /\ result.youtube # Null /\ result.youtube.subscribers > 0
    /\ result.avgEngagementRate = result.instagram.engagementRate

\* ------------------------------------------------ claims: the parts of a ranking
\* The analyses that succeeded among the URLs analysed
Analysed ==
    {AnalyzePhoto(i, ToAnalyze[i], response[i]) : i \in 1..Len(ToAnalyze)} \ {Null}

\* C34: hero, gallery and skipped are pairwise disjoint and hold together
\* exactly the candidates analysed with success, so totalAnalyzed is their
\* number; and no candidate of the gallery scores below one of skipped.
C34_PartsPartitionAnalysed ==
    ranked # Null =>
        LET H == IF ranked.hero = Null THEN {} ELSE {ranked.hero}
            G == Range(ranked.gallery)
            S == Range(ranked.skipped)
        IN /\ H \cap G = {} /\ H \cap S = {} /\ G \cap S = {}
           /\ Cardinality(G) = Len(ranked.gallery)
           /\ Cardinality(S) = Len(ranked.skipped)
           /\ H \cup G \cup S = Analysed
           /\ ranked.totalAnalyzed
                  = Cardinality(H) + Len(ranked.gallery) + Len(ranked.skipped)
           /\ \A g \in G : \A s \in S : g.score >= s.score

\* A hero, a gallery and a skipped candidate, next to a failed analysis
C34_Witness ==
    /\ ranked # Null
    /\ ranked.hero # Null
    /\ Len(ranked.gallery) > 0
    /\ \E i \in 1..Len(ranked.skipped) : ranked.skipped[i].recommendation = "SKIP"
    /\ ranked.totalAnalyzed < Len(ToAnalyze)

\* The gallery loop deciding by the score floor alone
RECURSIVE GalleryByFloorAlone(_, _, _, _)
GalleryByFloorAlone(sorted, k, hero, gallery) ==
    IF k > Len(sorted) THEN gallery
    ELSE IF sorted[k] = hero \/ sorted[k].score < 40 \/ Len(gallery) >= 5
    THEN GalleryByFloorAlone(sorted, k + 1, hero, gallery)
    ELSE GalleryByFloorAlone(sorted, k + 1, hero, Append(gallery, sorted[k]))

\* C35: with quality and visualAppeal in 1..10 every SKIP candidate scores
\* below the floor 4.0, so the gallery is what the floor alone would give
\* and holds no SKIP candidate.
C35_SkipBelowFloor ==
    /\ \A i \in 1..Len(photoResults) :
           photoResults[i].recommendation = "SKIP" => photoResults[i].score < 40
    /\ ranked # Null =>
           /\ \A i \in 1..Len(ranked.gallery) : ranked.gallery[i].recommendation # "SKIP"
           /\ ranked.gallery = GalleryByFloorAlone(photoResults, 1, ranked.hero, <<>>)

\* The best SKIP candidate there can be is ranked next to a gallery candidate
C35_Witness ==
    /\ ranked # Null
    /\ Len(ranked.gallery) > 0
    /\ \E i \in 1..Len(ranked.skipped) :
           /\ ranked.skipped[i].recommendation = "SKIP"
           /\ ranked.skipped[i].type = "FOOD"
           /\ ranked.skipped[i].quality = 10 /\ ranked.skipped[i].visualAppeal = 10
           /\ ranked.skipped[i].score = 39

\* C36: every headless browser an extractor launches is closed before the call
\* settles, on every path; after the call settles no browser it launched
\* remains open.
C36_NoBrowserLeftOpen == Settled => browser # "open"

\* What the finally blocks do establish: a call that fulfils has closed the
\* browser it launched (after a clean return and after the fallback of the
\* catch block alike); a browser is left open only when browser.close()
\* itself failed, and then the call rejects.
ClosedUnlessCloseFails ==
    /\ (Settled /\ eret.st = "returned") => browser # "open"
    /\ (Settled /\ browser = "open") => (eret.st = "threw" /\ epc = "done")

\* ================================================= bot/conversation.ts, bot/telegram.ts
\* One user of the bot.  A session is the user's entry of the `sessions` map;
\* the optional fields are kept as "is set" flags, and `stale` tells whether
\* Date.now() - lastActivity has passed SESSION_TIMEOUT.
MaxGenerations == 2

ConversationState == {"IDLE", "AWAITING_NAME", "AWAITING_CITY", "CONFIRMING",
                      "CHOOSING_STYLE", "GENERATING", "READY", "AWAITING_PHOTO",
                      "MODIFYING"}

NewSession == [state |-> "IDLE", scrapedData |-> FALSE, pageData |-> FALSE,
               pageSlug |-> FALSE, outputDir |-> FALSE, stale |-> FALSE]

\* getSession: a stale session is replaced by { state: 'IDLE', pageSlug,
\* pageData, lastActivity }, a missing one by { state: 'IDLE', lastActivity };
\* the map holds what is returned.
getSession(s) ==
    IF s = Null THEN NewSession
    ELSE IF s.stale
         THEN [NewSession EXCEPT !.pageSlug = s.pageSlug, !.pageData = s.pageData]
         ELSE s

\* updateSession: { ...getSession(userId), ...updates, lastActivity: Date.now() }
updateSession(s, updates) ==
    LET cur == getSession(s)
    IN [k \in DOMAIN cur |->
            IF k = "stale" THEN FALSE
            ELSE IF k \in DOMAIN updates THEN updates[k] ELSE cur[k]]

\* transitionTo: getSession for the log line, then updateSession with the state
transitionTo(s, newState) == updateSession(getSession(s), [state |-> newState])

\* resetSession: `current` is read from the map without the staleness check,
\* and its pageSlug, pageData and outputDir are written back.
resetSession(s) ==
    LET current == IF s = Null THEN NewSession ELSE s
    IN updateSession(s, [state |-> "IDLE", scrapedData |-> FALSE,
                         pageSlug |-> current.pageSlug,
                         pageData |-> current.pageData,
                         outputDir |-> current.outputDir])

\* The positions of a handleGeneration call
InProgress == {"noData", "replyStart", "typing", "try", "replyReady", "catchReply"}
SettledCall == {"fulfilled", "rejected"}
\* The positions between transitionTo('GENERATING') and the end of the work
\* of the try block: the page is being generated
Generating == {"replyStart", "typing", "try"}

SetPc(i, pc) == [gens EXCEPT ![i] = [pc |-> pc]]

\* handleGeneration up to its first await: getSession, the scrapedData test,
\* updateSession({ style }) and transitionTo('GENERATING').
StartGeneration(s) ==
    LET sess == getSession(s)
    IN /\ Len(gens) < MaxGenerations
       /\ IF ~sess.scrapedData
          THEN /\ session' = sess
               /\ gens' = Append(gens, [pc |-> "noData"])
          ELSE /\ session' = transitionTo(updateSession(sess, << >>), "GENERATING")
               /\ gens' = Append(gens, [pc |-> "replyStart"])

\* More than SESSION_TIMEOUT passes without activity
SessionTimeout ==
    /\ session # Null
    /\ ~session.stale
    /\ session' = [session EXCEPT !.stale = TRUE]
    /\ UNCHANGED <<outsideBot, gens>>

\* /start and /new: resetSession, then transitionTo('AWAITING_NAME')
CommandNew ==
    /\ session' = transitionTo(resetSession(session), "AWAITING_NAME")
    /\ UNCHANGED <<outsideBot, gens>>

\* /preview, /status and /deploy: getSession and a reply
CommandRead ==
    /\ session' = getSession(session)
    /\ UNCHANGED <<outsideBot, gens>>

CallbackData == {"confirm_yes", "confirm_no", "style_", "photos_yes", "photos_no"}

\* bot.on('callback_query'): getSession, await ctx.answerCbQuery() (ok tells
\* whether it resolved), then the branch chosen by the button's data.
CallbackQuery(data, ok) ==
    LET sess == getSession(session)
    IN /\ CASE ~ok \/ data = "photos_no" ->
                    session' = sess /\ gens' = gens
            [] ok /\ data = "confirm_yes" ->
                    /\ session' = IF sess.state = "CONFIRMING" /\ sess.scrapedData
                                  THEN transitionTo(sess, "CHOOSING_STYLE")
                                  ELSE sess
                    /\ gens' = gens
            [] ok /\ data = "confirm_no" ->
                    /\ session' = transitionTo(resetSession(sess), "AWAITING_NAME")
                    /\ gens' = gens
            [] ok /\ data = "style_" -> StartGeneration(sess)
            [] ok /\ data = "photos_yes" ->
                    /\ session' = transitionTo(sess, "AWAITING_PHOTO")
                    /\ gens' = gens
       /\ UNCHANGED outsideBot

\* What a text says, as the handlers classify it: a page shortcut ("/slug" of
\* an existing page), a restaurant or city name, a confirmation, a denial, a
\* style word, a modification request
TextKinds == {"shortcut", "name", "yes", "no", "style", "modify"}

\* bot.on(message('text')): the switch on session.state; ok tells whether the
\* operation the branch awaits (loadPageData, scrapeRestaurant, handleAction)
\* succeeded, requiresPhoto is the flag of the ActionResult.
TextMessage(kind, ok, requiresPhoto) ==
    LET sess == getSession(session)
        st == sess.state
    IN /\ CASE st \in {"IDLE", "AWAITING_NAME"} ->
                    /\ session' =
                         IF kind = "shortcut" /\ ok
                         THEN transitionTo(updateSession(sess,
                                  [pageSlug |-> TRUE, pageData |-> TRUE,
                                   outputDir |-> TRUE]), "READY")
                         ELSE IF kind = "name"
                         THEN transitionTo(updateSession(sess, << >>), "AWAITING_CITY")
                         ELSE sess
                    /\ gens' = gens
            [] st = "AWAITING_CITY" ->
                    /\ session' =
                         IF kind # "name" THEN sess
                         ELSE IF ok
                         THEN transitionTo(updateSession(updateSession(sess, << >>),
                                  [scrapedData |-> TRUE, outputDir |-> TRUE]),
                                  "CONFIRMING")
                         ELSE transitionTo(updateSession(sess, << >>), "AWAITING_NAME")
                    /\ gens' = gens
            [] st = "CONFIRMING" ->
                    /\ session' =
                         IF kind = "yes" THEN transitionTo(sess, "CHOOSING_STYLE")
                         ELSE IF kind = "no"
                         THEN transitionTo(resetSession(sess), "AWAITING_NAME")
                         ELSE sess
                    /\ gens' = gens
            [] st = "CHOOSING_STYLE" ->
                    IF kind = "style" THEN StartGeneration(sess)
                    ELSE session' = sess /\ gens' = gens
            [] st = "READY" ->
                    /\ session' =
                         IF kind # "modify" \/ ~sess.pageData \/ ~sess.pageSlug
                         THEN sess
                         ELSE LET upd == IF ok /\ sess.outputDir
                                         THEN updateSession(sess, [pageData |-> TRUE])
                                         ELSE sess
                              IN IF requiresPhoto
                                 THEN transitionTo(upd, "AWAITING_PHOTO")
                                 ELSE upd
                    /\ gens' = gens
            [] OTHER -> session' = sess /\ gens' = gens
       /\ UNCHANGED outsideBot

\* bot.on(message('photo')) and handlePhotoUpload: got tells whether getFile
\* resolved, ok whether updatePhoto succeeded.
PhotoMessage(got, ok) ==
    LET sess == getSession(session)
    IN /\ session' =
            IF sess.state \notin {"AWAITING_PHOTO", "READY"} THEN sess
            ELSE IF ~got THEN transitionTo(sess, "READY")
            ELSE IF ~sess.pageData \/ ~sess.outputDir THEN sess
            ELSE IF ok
            THEN transitionTo(updateSession(sess, [pageData |-> TRUE]), "READY")
            ELSE transitionTo(sess, "READY")
       /\ gens' = gens
       /\ UNCHANGED outsideBot

\* handleGeneration without scrapedData: await ctx.reply(ERROR_GENERIC), then
\* resetSession
GenerationNoData(i, ok) ==
    /\ i \in DOMAIN gens
    /\ gens[i].pc = "noData"
    /\ IF ok
       THEN /\ session' = resetSession(session)
            /\ gens' = SetPc(i, "fulfilled")
       ELSE /\ session' = session
            /\ gens' = SetPc(i, "rejected")
    /\ UNCHANGED outsideBot

\* await ctx.reply(MESSAGES.GENERATING_START), before the try
GenerationReplyStart(i, ok) ==
    /\ i \in DOMAIN gens
    /\ gens[i].pc = "replyStart"
    /\ gens' = SetPc(i, IF ok THEN "typing" ELSE "rejected")
    /\ UNCHANGED <<outsideBot, session>>

\* await ctx.sendChatAction('typing'), before the try
GenerationTyping(i, ok) ==
    /\ i \in DOMAIN gens
    /\ gens[i].pc = "typing"
    /\ gens' = SetPc(i, IF ok THEN "try" ELSE "rejected")
    /\ UNCHANGED <<outsideBot, session>>

\* The try block up to transitionTo('READY'): the replies, generateContent,
\* savePageData, buildPage, writeFile, then updateSession({ pageSlug,
\* pageData, outputDir }); a failure goes to the catch block, which starts
\* with transitionTo('AWAITING_NAME').
GenerationTry(i, ok) ==
    /\ i \in DOMAIN gens
    /\ gens[i].pc = "try"
    /\ IF ok
       THEN /\ session' = transitionTo(updateSession(session,
                              [pageSlug |-> TRUE, pageData |-> TRUE,
                               outputDir |-> TRUE]), "READY")
            /\ gens' = SetPc(i, "replyReady")
       ELSE /\ session' = transitionTo(session, "AWAITING_NAME")
            /\ gens' = SetPc(i, "catchReply")
    /\ UNCHANGED outsideBot

\* await ctx.reply(MESSAGES.PAGE_READY(...)), the last statement of the try
GenerationReplyReady(i, ok) ==
    /\ i \in DOMAIN gens
    /\ gens[i].pc = "replyReady"
    /\ IF ok
       THEN /\ session' = session
            /\ gens' = SetPc(i, "fulfilled")
       ELSE /\ session' = transitionTo(session, "AWAITING_NAME")
            /\ gens' = SetPc(i, "catchReply")
    /\ UNCHANGED outsideBot

\* await ctx.reply(MESSAGES.ERROR_GENERATE ...), the last statement of the catch
GenerationCatchReply(i, ok) ==
    /\ i \in DOMAIN gens
    /\ gens[i].pc = "catchReply"
    /\ gens' = SetPc(i, IF ok THEN "fulfilled" ELSE "rejected")
    /\ UNCHANGED <<outsideBot, session>>

InitBot ==
    /\ AggOff /\ ExOff /\ RankOff
    /\ ParseOff /\ ReviewOff /\ SlugOff /\ PhotoOff /\ HandlerOff
    /\ session = Null
    /\ gens = <<>>

NextBot ==
    \/ SessionTimeout
    \/ CommandNew
    \/ CommandRead
    \/ \E data \in CallbackData, ok \in BOOLEAN : CallbackQuery(data, ok)
    \/ \E kind \in TextKinds, ok, requiresPhoto \in BOOLEAN :
           TextMessage(kind, ok, requiresPhoto)
    \/ \E got, ok \in BOOLEAN : PhotoMessage(got, ok)
    \/ \E i \in 1..MaxGenerations, ok \in BOOLEAN : GenerationNoData(i, ok)
    \/ \E i \in 1..MaxGenerations, ok \in BOOLEAN : GenerationReplyStart(i, ok)
    \/ \E i \in 1..MaxGenerations, ok \in BOOLEAN : GenerationTyping(i, ok)
    \/ \E i \in 1..MaxGenerations, ok \in BOOLEAN : GenerationTry(i, ok)
    \/ \E i \in 1..MaxGenerations, ok \in BOOLEAN : GenerationReplyReady(i, ok)
    \/ \E i \in 1..MaxGenerations, ok \in BOOLEAN : GenerationCatchReply(i, ok)

SpecBot == InitBot /\ [][NextBot]_vars

\* C37: per bot user at most one page generation is in progress: while the
\* session is GENERATING no incoming update starts a second handleGeneration.
C37_OneGenerationAtATime ==
    Cardinality({i \in DOMAIN gens : gens[i].pc \in Generating}) <= 1

\* C38: the session does not stay in GENERATING once handleGeneration has
\* settled (no call of it being in progress): its state is READY or
\* AWAITING_NAME, also when a reply to the user failed.
C38_NotLeftGenerating ==
    (/\ \E i \in DOMAIN gens : gens[i].pc \in SettledCall
     /\ \A i \in DOMAIN gens : gens[i].pc \notin InProgress)
    => session.state # "GENERATING"

\* C39: after any sequence of session operations a session that holds
\* pageData also holds outputDir.
C39_PageDataHasOutputDir ==
    (session # Null /\ session.pageData) => session.outputDir

====
